---------------------------- MODULE Spec2Model ----------------------------
(***************************************************************************)
(* A model of gaplint (src/gaplint.py): the configuration resolver, the    *)
(* suppression tables, the stateful line rules and the run coordinator.    *)
(*                                                                         *)
(* Text is modelled character by character: a Python str is a sequence of  *)
(* one-character strings, so that lengths, columns, find() positions and   *)
(* the regular expressions of the source keep their meaning.  A Python     *)
(* exception that leaves a function is a value: operators that can raise   *)
(* return a record whose exc field names the exception ("none" when the    *)
(* call returns).                                                          *)
(***************************************************************************)
EXTENDS Integers, Sequences, FiniteSets, TLC

VARIABLES
    kwargs,                     \* keyword arguments / command line of the call
    yml,                        \* the discovered .gaplint.yml (or its absence)
    files,                      \* the files named in the call, with their text
    __CONFIG,                   \* global __CONFIG (line 26)
    __SUPPRESSIONS,             \* global __SUPPRESSIONS (line 27)
    __GLOBAL_SUPPRESSIONS,      \* global __GLOBAL_SUPPRESSIONS (line 28)
    __USER_PREFERENCES_LOADED,  \* global __USER_PREFERENCES_LOADED (line 29)
    args,                       \* the namespace returned by _parse_args
    pc,                         \* position of run_gaplint
    exc,                        \* exception that ended the call ("none")
    exit_msg,                   \* argument of _exit_abort when it was called
    fi,                         \* index of fname in args.files (1-based)
    i,                          \* loop variable i of run_gaplint (0-based)
    ri,                         \* index of rule in RULES (1-based)
    lines,                      \* local variable lines of run_gaplint
    nr_warnings,                \* local nr_warnings
    total_nr_warnings,          \* local total_nr_warnings
    ro,                         \* the RuleOutput of the last rule applied
    is_rule_supp,               \* local is_rule_supp of the last dispatch
    RULES,                      \* the mutable fields of the rule objects
    _remove_prefix,             \* _remove_prefix._consuming
    hist,                       \* history: what the run has done so far
    ret,                        \* value returned by a function called alone
    _SILENT,                    \* global _SILENT (line 21)
    exit_code                   \* status of sys.exit when the module runs as a
                                \* program (NotExited: sys.exit was not called)

vars == << kwargs, yml, files, __CONFIG, __SUPPRESSIONS, __GLOBAL_SUPPRESSIONS,
           __USER_PREFERENCES_LOADED, args, pc, exc, exit_msg, fi, i, ri, lines,
           nr_warnings, total_nr_warnings, ro, is_rule_supp, RULES,
           _remove_prefix, hist, ret, _SILENT, exit_code >>

-----------------------------------------------------------------------------
(* Python str and list primitives on sequences.                            *)

Max(a, b) == IF a >= b THEN a ELSE b
Min(a, b) == IF a <= b THEN a ELSE b

\* s[a:b] for 0 <= a, b (0-based, b exclusive), clipped like a Python slice.
Slice(s, a, b) == SubSeq(s, a + 1, Min(b, Len(s)))

\* s[a:]
From(s, a) == SubSeq(s, a + 1, Len(s))

\* True when sub occurs in s at 0-based position p.
OccursAt(s, sub, p) ==
    /\ p >= 0
    /\ p + Len(sub) <= Len(s)
    /\ \A k \in 1..Len(sub) : s[p + k] = sub[k]

\* s.find(sub, start): the least 0-based position >= start, or -1.
Find(s, sub, start) ==
    LET hits == { p \in start..(Len(s) - Len(sub)) : OccursAt(s, sub, p) }
    IN  IF hits = {} THEN -1 ELSE CHOOSE p \in hits : \A q \in hits : p <= q

\* x in list
InList(x, list) == \E k \in 1..Len(list) : list[k] = x

WhitespaceChars == {" ", "\t", "\n", "\r", "\f"}

WordChars ==
    {"a","b","c","d","e","f","g","h","i","j","k","l","m","n","o","p","q","r",
     "s","t","u","v","w","x","y","z",
     "A","B","C","D","E","F","G","H","I","J","K","L","M","N","O","P","Q","R",
     "S","T","U","V","W","X","Y","Z",
     "0","1","2","3","4","5","6","7","8","9","_"}

\* regular expression classes \s and \w
IsSpace(c) == c \in WhitespaceChars
IsWord(c) == c \in WordChars

\* s.strip()
RECURSIVE LStrip(_)
LStrip(s) == IF s # <<>> /\ IsSpace(Head(s)) THEN LStrip(Tail(s)) ELSE s
RECURSIVE RStrip(_)
RStrip(s) ==
    IF s # <<>> /\ IsSpace(s[Len(s)]) THEN RStrip(SubSeq(s, 1, Len(s) - 1)) ELSE s
Strip(s) == RStrip(LStrip(s))

\* s.split(','): the list of the fields between the separators.
RECURSIVE Split(_, _)
Split(s, sep) ==
    LET p == Find(s, <<sep>>, 0)
    IN  IF p = -1 THEN <<s>>
        ELSE <<Slice(s, 0, p)>> \o Split(From(s, p + 1), sep)

\* an _eol that never returns the terminator
_eol_Never(line) == <<>>

\* _eol (lines 237-238)
_eol(line) == IF line[Len(line)] = "\n" THEN <<"\n">> ELSE <<>>

-----------------------------------------------------------------------------
(* The rule list (lines 921-983): name and code of every rule modelled.    *)
(* The stateless WarnRegex rules W005-W011 and W013-W027 neither change    *)
(* the line nor keep state; W012 (tabs) stands for them.                   *)

N_line_too_long == <<"l","i","n","e","-","t","o","o","-","l","o","n","g">>
N_empty_lines == <<"e","m","p","t","y","-","l","i","n","e","s">>
N_trailing_whitespace ==
    <<"t","r","a","i","l","i","n","g","-","w","h","i","t","e","s","p","a","c","e">>
N_remove_comments ==
    <<"r","e","m","o","v","e","-","c","o","m","m","e","n","t","s">>
N_replace_multiline_strings ==
    <<"r","e","p","l","a","c","e","-","m","u","l","t","i","l","i","n","e","-",
      "s","t","r","i","n","g","s">>
N_replace_double_quotes ==
    <<"r","e","p","l","a","c","e","-","d","o","u","b","l","e","-",
      "q","u","o","t","e","s">>
N_replace_escaped_quotes ==
    <<"r","e","p","l","a","c","e","-","e","s","c","a","p","e","d","-",
      "q","u","o","t","e","s">>
N_indentation == <<"i","n","d","e","n","t","a","t","i","o","n">>
N_tabs == <<"t","a","b","s">>
N_unused_local_variables ==
    <<"u","n","u","s","e","d","-","l","o","c","a","l","-",
      "v","a","r","i","a","b","l","e","s">>

\* __RULE_NAMES_AND_CODES (lines 985-987): [name, code, the code as text]
__RULE_NAMES_AND_CODES ==
    << [name |-> N_line_too_long,             code |-> "W001", text |-> <<"W","0","0","1">>],
       [name |-> N_empty_lines,               code |-> "W002", text |-> <<"W","0","0","2">>],
       [name |-> N_trailing_whitespace,       code |-> "W003", text |-> <<"W","0","0","3">>],
       [name |-> N_remove_comments,           code |-> "M001", text |-> <<"M","0","0","1">>],
       [name |-> N_replace_multiline_strings, code |-> "M002", text |-> <<"M","0","0","2">>],
       [name |-> N_replace_double_quotes,     code |-> "M003", text |-> <<"M","0","0","3">>],
       [name |-> N_replace_escaped_quotes,    code |-> "M004", text |-> <<"M","0","0","4">>],
       [name |-> N_indentation,               code |-> "W004", text |-> <<"W","0","0","4">>],
       [name |-> N_tabs,                      code |-> "W012", text |-> <<"W","0","1","2">>],
       [name |-> N_unused_local_variables,    code |-> "W028", text |-> <<"W","0","2","8">>] >>

NrRules == Len(__RULE_NAMES_AND_CODES)

\* __get_all_rules_list('codes') (lines 989-1003)
__get_all_rules_list == [k \in 1..NrRules |-> __RULE_NAMES_AND_CODES[k].code]

AllCodes == { __get_all_rules_list[k] : k \in 1..NrRules }

\* __rule_code (lines 1009-1020): the code of a rule name or code given as
\* text, "False" when it is neither.
__rule_code(rule) ==
    IF \E k \in 1..NrRules : __RULE_NAMES_AND_CODES[k].name = rule
    THEN __RULE_NAMES_AND_CODES[
             CHOOSE k \in 1..NrRules : __RULE_NAMES_AND_CODES[k].name = rule].code
    ELSE IF \E k \in 1..NrRules : __RULE_NAMES_AND_CODES[k].text = rule
    THEN __RULE_NAMES_AND_CODES[
             CHOOSE k \in 1..NrRules : __RULE_NAMES_AND_CODES[k].text = rule].code
    ELSE "False"

T_all == <<"a","l","l">>


-----------------------------------------------------------------------------
(* Configuration (lines 24-212).                                           *)

DefaultColumns == 80
DefaultMaxWarnings == 1000
DefaultIndentation == 2

ConfigKeys == {"columns", "max_warnings", "indentation", "disable"}

\* __DEFAULT_CONFIG (lines 24-25)
__DEFAULT_CONFIG ==
    [columns |-> DefaultColumns, max_warnings |-> DefaultMaxWarnings,
     indentation |-> DefaultIndentation, disable |-> <<>>]

\* _get_config_val (lines 196-212), reading the dictionary config as __CONFIG
get_config_val_in(config, key) ==
    IF key \in DOMAIN config THEN config[key] ELSE __DEFAULT_CONFIG[key]

_get_config_val(key) == get_config_val_in(__CONFIG, key)

\* dic with dic[key] = val
DictSet(dic, key, val) ==
    [k \in (DOMAIN dic) \cup {key} |-> IF k = key THEN val ELSE dic[k]]

\* dic without the keys in gone
DictDel(dic, gone) == [k \in (DOMAIN dic) \ gone |-> dic[k]]

\* {}
EmptyDict == [k \in {} |-> 0]

\* __valid_config_entry (lines 64-95) for a key of dic.  A value of the yml
\* dictionary is [t |-> its Python type, v |-> the value].  The call of
\* _info_warn on line 79 passes one argument to a function of three.
__valid_config_entry(dic, key) ==
    IF key \notin ConfigKeys THEN "TypeError"
    ELSE IF key \in {"max_warnings", "indentation", "columns"}
    THEN (IF dic[key].t = "int" THEN "True" ELSE "False")
    ELSE IF dic[key].t \in {"None", "list_of_str"} THEN "True" ELSE "False"

\* __get_config_yml_dic (lines 97-127).  yml.file is "none" when no
\* .gaplint.yml is discovered, "ioerror" or "scanerror" when open or
\* yaml.load raises, "empty" when yaml.load returns None, "dict" when it
\* returns the dictionary yml.dic.
__get_config_yml_dic(y) ==
    IF y.file = "none" THEN [exc |-> "none", dic |-> EmptyDict]
    ELSE IF y.file \in {"ioerror", "scanerror"} THEN [exc |-> "none", dic |-> EmptyDict]
    ELSE IF y.file = "empty" THEN [exc |-> "AttributeError", dic |-> EmptyDict]
    ELSE IF \E key \in DOMAIN y.dic : __valid_config_entry(y.dic, key) = "TypeError"
    THEN [exc |-> "TypeError", dic |-> EmptyDict]
    ELSE [exc |-> "none",
          dic |-> DictDel(y.dic, { key \in DOMAIN y.dic :
                                     __valid_config_entry(y.dic, key) = "False" })]

\* __make_code_list (lines 129-147) on a list of rule names and codes
RECURSIVE make_code_list_from(_, _)
make_code_list_from(rule_list, codes_list) ==
    IF rule_list = <<>> THEN codes_list
    ELSE IF Head(rule_list) = T_all THEN __get_all_rules_list
    ELSE LET code == __rule_code(Head(rule_list))
         IN  make_code_list_from(Tail(rule_list),
                 IF InList(code, codes_list) THEN codes_list
                 ELSE Append(codes_list, code))

__make_code_list(rule_list) == make_code_list_from(rule_list, <<>>)

\* lines 170-177: an option of the command line replaces the yml value
\* when it differs from the built-in default
OverrideGiven(argval, default) == argval # default

\* __set_user_config_dic (lines 149-183): the new __CONFIG, or the
\* exception raised.  a is the namespace of _parse_args.
__set_user_config_dic(a, y, config) ==
    LET got == __get_config_yml_dic(y)
        temp0 == [k \in DOMAIN got.dic |->
                     IF got.dic[k].t = "int" THEN got.dic[k].n ELSE got.dic[k].l]
    IN  IF got.exc # "none" THEN [exc |-> got.exc, config |-> config]
        ELSE IF "disable" \notin DOMAIN temp0
        THEN [exc |-> "KeyError", config |-> config]
        ELSE IF a.disable.t # "str"
        THEN [exc |-> "AttributeError", config |-> config]
        ELSE
        LET temp1 == DictSet(temp0, "disable",
                         IF got.dic["disable"].t = "None" THEN <<>>
                         ELSE __make_code_list(temp0["disable"]))
            rules_to_disable ==
                __make_code_list([k \in 1..Len(Split(a.disable.v, ",")) |->
                                     Strip(Split(a.disable.v, ",")[k])])
            temp2 == IF OverrideGiven(rules_to_disable, __DEFAULT_CONFIG["disable"])
                     THEN DictSet(temp1, "disable", rules_to_disable) ELSE temp1
            temp3 == IF OverrideGiven(a.max_warnings, __DEFAULT_CONFIG["max_warnings"])
                     THEN DictSet(temp2, "max_warnings", a.max_warnings) ELSE temp2
            temp4 == IF OverrideGiven(a.columns, __DEFAULT_CONFIG["columns"])
                     THEN DictSet(temp3, "columns", a.columns) ELSE temp3
            temp5 == IF OverrideGiven(a.indentation, __DEFAULT_CONFIG["indentation"])
                     THEN DictSet(temp4, "indentation", a.indentation) ELSE temp4
        IN  [exc |-> "none",
             config |-> [k \in (DOMAIN config) \cup (DOMAIN temp5) |->
                            IF k \in DOMAIN config THEN config[k] ELSE temp5[k]]]

\* _parse_args (lines 839-907): the options and the files of the call.  An
\* option that is not given takes the value _get_config_val returns when
\* the parser is built.  kw[key] is [given |-> BOOLEAN, v |-> value].
_parse_args(kw, fs, config) ==
    [max_warnings |-> IF kw.max_warnings.given THEN kw.max_warnings.v
                      ELSE get_config_val_in(config, "max_warnings"),
     columns      |-> IF kw.columns.given THEN kw.columns.v
                      ELSE get_config_val_in(config, "columns"),
     indentation  |-> IF kw.indentation.given THEN kw.indentation.v
                      ELSE get_config_val_in(config, "indentation"),
     disable      |-> IF kw.disable.given THEN [t |-> "str", v |-> kw.disable.v]
                      ELSE [t |-> "list", v |-> get_config_val_in(config, "disable")],
     files        |-> [k \in 1..Len(fs) |-> k]]


-----------------------------------------------------------------------------
(* Rule output (lines 282-305) and the escape utilities (lines 314-324,    *)
(* 423-427).                                                               *)

\* a warning message: its fixed text and the values formatted into it
Msg(kind, data) == [kind |-> kind, data |-> data]
NoMsg == Msg("None", <<>>)
HasMsg(r) == r.msg.kind # "None"

\* RuleOutput(line, msg, abort) (lines 293-305)
RuleOutput(line, msg, abort) == [line |-> line, msg |-> msg, abort |-> abort]

\* the second assertion of _is_escaped (line 318)
_is_escaped_assert(line, pos) ==
    \/ pos >= 0 /\ pos < Len(line)
    \/ pos < 0 /\ Len(line) + pos > 0

\* the number of consecutive backslashes that end just before 0-based pos
RECURSIVE BackslashesBefore(_, _)
BackslashesBefore(line, pos) ==
    IF pos >= 1 /\ line[pos] = "\\" THEN 1 + BackslashesBefore(line, pos - 1) ELSE 0

\* s[::-1]
Reverse(s) == [k \in 1..Len(s) |-> s[Len(s) + 1 - k]]

\* the length of the longest prefix of s made of backslashes
RECURSIVE LeadingBackslashes(_)
LeadingBackslashes(s) ==
    IF s # <<>> /\ Head(s) = "\\" THEN 1 + LeadingBackslashes(Tail(s)) ELSE 0

\* the length of the longest run without a backslash that starts after the
\* first n characters of s
RECURSIVE NoBackslashRun(_, _)
NoBackslashRun(s, n) ==
    IF n < Len(s) /\ s[n + 1] # "\\" THEN 1 + NoBackslashRun(s, n + 1) ELSE 0

\* $ of a regular expression after the first p characters of s: the end of
\* s, or just before a newline that ends s
AtDollar(s, p) == p = Len(s) \/ (p = Len(s) - 1 /\ s[Len(s)] = "\n")

\* a pattern that accepts any number of leading backslashes
_ESCAPE_PATTERN_AnyCount(rev) == LeadingBackslashes(rev) >= 1

\* _ESCAPE_PATTERN.search(rev) (line 314) is not None:
\* ^\\(\\\\)*[^\\]+.*$ or ^\\(\\\\)*$.  Both branches take every leading
\* backslash, an odd number of them; [^\\]+ takes k characters of the run
\* that follows and .* takes m characters that are not newlines.
_ESCAPE_PATTERN(rev) ==
    /\ LeadingBackslashes(rev) % 2 = 1
    /\ \/ AtDollar(rev, LeadingBackslashes(rev))
       \/ \E k \in 1..NoBackslashRun(rev, LeadingBackslashes(rev)) :
            \E m \in 0..(Len(rev) - LeadingBackslashes(rev) - k) :
               /\ \A j \in 1..m : rev[LeadingBackslashes(rev) + k + j] # "\n"
               /\ AtDollar(rev, LeadingBackslashes(rev) + k + m)

\* _is_escaped (lines 316-324) where its assertion holds.  line[pos - 1]
\* with pos = 0 reads the last character.
_is_escaped(line, pos) ==
    LET p == IF pos < 0 THEN Len(line) + pos ELSE pos
        before == IF p = 0 THEN line[Len(line)] ELSE line[p]
    IN  IF before # "\\" THEN FALSE
        ELSE _ESCAPE_PATTERN(Reverse(Slice(line, 0, p)))

\* _is_double_quote_in_char (lines 423-427)
_is_double_quote_in_char(line, pos) ==
    /\ pos > 0
    /\ pos + 1 < Len(line)
    /\ Slice(line, pos - 1, pos + 2) = <<"'", "\"", "'">>
    /\ ~ _is_escaped(line, pos - 1)

-----------------------------------------------------------------------------
(* The rules that warn about one line (lines 528-540, 674-693, 923, 949).  *)

\* LineTooLong.__call__ (lines 534-540)
LineTooLong(line, config) ==
    LET cols == get_config_val_in(config, "columns")
    IN  IF Len(line) > cols
        THEN RuleOutput(line, Msg("too long line", <<Len(line) - 1, cols>>), FALSE)
        ELSE RuleOutput(line, NoMsg, FALSE)

\* the patterns ^\s*$ of lines 643 and 679
IsBlank(line) == \A k \in 1..Len(line) : IsSpace(line[k])

\* a rule that keeps the message of WarnRegex on every blank line
ConsecutiveEmptyLines_EveryBlank(line, prev_line_empty) ==
    IF IsBlank(line)
    THEN [ro |-> RuleOutput(line, Msg("consecutive empty lines!", <<>>), FALSE),
          prev_line_empty |-> TRUE]
    ELSE [ro |-> RuleOutput(line, NoMsg, FALSE), prev_line_empty |-> FALSE]

\* ConsecutiveEmptyLines.__call__ (lines 682-690): the output and the new
\* _prev_line_empty
ConsecutiveEmptyLines(line, prev_line_empty) ==
    IF IsBlank(line)
    THEN IF ~ prev_line_empty
         THEN [ro |-> RuleOutput(line, NoMsg, FALSE), prev_line_empty |-> TRUE]
         ELSE [ro |-> RuleOutput(line, Msg("consecutive empty lines!", <<>>), FALSE),
               prev_line_empty |-> prev_line_empty]
    ELSE [ro |-> RuleOutput(line, NoMsg, FALSE), prev_line_empty |-> FALSE]

\* WarnRegex 'trailing-whitespace' (lines 923-924): ^.*\s+\n$
TrailingWhitespace(line) ==
    IF /\ Len(line) >= 2
       /\ line[Len(line)] = "\n"
       /\ IsSpace(line[Len(line) - 1])
       /\ \A k \in 1..(Len(line) - 2) : line[k] # "\n"
    THEN RuleOutput(line, Msg("trailing whitespace!", <<>>), FALSE)
    ELSE RuleOutput(line, NoMsg, FALSE)

\* WarnRegex 'tabs' (lines 949-950): \t
Tabs(line) ==
    IF \E k \in 1..Len(line) : line[k] = "\t"
    THEN RuleOutput(line, Msg("there are tabs in this line, replace with spaces!",
                              <<>>), FALSE)
    ELSE RuleOutput(line, NoMsg, FALSE)

\* _skip_tst_or_xml_file (lines 311-312)
_skip_tst_or_xml_file(ext) == ext = "tst" \/ ext = "xml"

-----------------------------------------------------------------------------
(* The line transforms (lines 358-526).                                    *)

\* re.sub(r'\\.', '', s) (line 370)
RECURSIVE StripEscapes(_)
StripEscapes(s) ==
    IF s = <<>> THEN s
    ELSE IF Head(s) = "\\" /\ Len(s) >= 2 /\ s[2] # "\n"
    THEN StripEscapes(From(s, 2))
    ELSE <<Head(s)>> \o StripEscapes(Tail(s))

Count(s, c) == Cardinality({ k \in 1..Len(s) : s[k] = c })

\* RemoveComments._is_in_string (lines 369-371)
_is_in_string(line, pos) ==
    LET l == StripEscapes(Slice(line, 0, pos))
    IN  Count(l, "\"") % 2 = 1 \/ Count(l, "'") % 2 = 1

\* RemoveComments.__call__ (lines 373-380)
RemoveComments(line) ==
    LET hits == { p \in 0..(Len(line) - 1) :
                    line[p + 1] = "#" /\ ~ _is_in_string(line, p) }
    IN  IF hits = {} THEN RuleOutput(line, NoMsg, FALSE)
        ELSE LET p == CHOOSE p \in hits : \A q \in hits : p <= q
             IN  RuleOutput(Slice(line, 0, p) \o _eol(line), NoMsg, FALSE)

REMOVED_MULTILINE_STRING ==
    <<"_","_","R","E","M","O","V","E","D","_","M","U","L","T","I","L","I",
      "N","E","_","S","T","R","I","N","G","_","_">>

TripleQuote == <<"\"", "\"", "\"">>

\* a stripper that looks for the closer from the second quote of the opener
ReplaceMultilineStrings_CloserInOpener(line, consuming) ==
    IF consuming
    THEN LET end == Find(line, TripleQuote, 0)
         IN  IF end # -1
             THEN [ro |-> RuleOutput(REMOVED_MULTILINE_STRING \o From(line, end + 3),
                                     NoMsg, FALSE),
                   consuming |-> FALSE]
             ELSE [ro |-> RuleOutput(REMOVED_MULTILINE_STRING \o _eol(line),
                                     NoMsg, FALSE),
                   consuming |-> TRUE]
    ELSE LET start == Find(line, TripleQuote, 0)
         IN  IF start = -1
             THEN [ro |-> RuleOutput(line, NoMsg, FALSE), consuming |-> FALSE]
             ELSE LET end == Find(line, TripleQuote, start + 1)
                      head == Slice(line, 0, start) \o REMOVED_MULTILINE_STRING
                  IN  IF end # -1
                      THEN [ro |-> RuleOutput(head \o From(line, end + 3), NoMsg, FALSE),
                            consuming |-> FALSE]
                      ELSE [ro |-> RuleOutput(head \o _eol(line), NoMsg, FALSE),
                            consuming |-> TRUE]

\* ReplaceMultilineStrings.__call__ (lines 397-418): the output and the new
\* _consuming
ReplaceMultilineStrings(line, consuming) ==
    IF consuming
    THEN LET end == Find(line, TripleQuote, 0)
         IN  IF end # -1
             THEN [ro |-> RuleOutput(REMOVED_MULTILINE_STRING \o From(line, end + 3),
                                     NoMsg, FALSE),
                   consuming |-> FALSE]
             ELSE [ro |-> RuleOutput(REMOVED_MULTILINE_STRING \o _eol(line),
                                     NoMsg, FALSE),
                   consuming |-> TRUE]
    ELSE LET start == Find(line, TripleQuote, 0)
         IN  IF start = -1
             THEN [ro |-> RuleOutput(line, NoMsg, FALSE), consuming |-> FALSE]
             ELSE LET end == Find(line, TripleQuote, start + 3)
                      head == Slice(line, 0, start) \o REMOVED_MULTILINE_STRING
                  IN  IF end # -1
                      THEN [ro |-> RuleOutput(head \o From(line, end + 3), NoMsg, FALSE),
                            consuming |-> FALSE]
                      ELSE [ro |-> RuleOutput(head \o _eol(line), NoMsg, FALSE),
                            consuming |-> TRUE]

REMOVED_STRING ==
    <<"_","_","R","E","M","O","V","E","D","_","S","T","R","I","N","G","_","_">>
REMOVED_CHAR ==
    <<"_","_","R","E","M","O","V","E","D","_","C","H","A","R","_","_">>

\* a double-quote rule constructed with the token of the character rule
DoubleQuote_CharToken == [quote |-> <<"\"">>, replacement |-> REMOVED_CHAR]

\* the constructor arguments of the two ReplaceQuotes rules (lines 927-930);
\* r'\'' is a backslash followed by a single quote
DoubleQuote == [quote |-> <<"\"">>, replacement |-> REMOVED_STRING]
EscapedQuote == [quote |-> <<"\\", "'">>, replacement |-> REMOVED_CHAR]

\* ReplaceQuotes._cont_replacement (line 444)
_cont_replacement(replacement) ==
    SubSeq(replacement, 1, Len(replacement) - 1)
        \o <<"C","O","N","T","I","N","U","A","T","I","O","N","_","_">>

\* ReplaceQuotes._next_valid_quote (lines 447-455)
RECURSIVE _next_valid_quote(_, _, _)
_next_valid_quote(quote, line, pos) ==
    LET p == Find(line, quote, pos)
    IN  IF p >= 0 /\ (_is_escaped(line, p) \/ _is_double_quote_in_char(line, p))
        THEN _next_valid_quote(quote, line, p + 1)
        ELSE p

\* the result of ReplaceQuotes.__call__: the exception raised ("none"), the
\* output and the new _consuming
QuotesResult(e, r, consuming) == [exc |-> e, ro |-> r, consuming |-> consuming]

\* the start of the scan after a replacement (line 495)
ScanResume(beg, replacement) == beg + Len(replacement) + 1

\* the while loop of ReplaceQuotes.__call__ (lines 483-496); line is the
\* argument of the call, roline is ro.line
RECURSIVE quotes_loop(_, _, _, _)
quotes_loop(q, line, roline, beg) ==
    IF beg = -1 THEN QuotesResult("none", RuleOutput(roline, NoMsg, FALSE), FALSE)
    ELSE LET end == _next_valid_quote(q.quote, roline, beg + 1)
         IN  IF end = -1
             THEN IF ~ _is_escaped_assert(roline, -1)
                  THEN QuotesResult("AssertionError", RuleOutput(roline, NoMsg, FALSE),
                                    FALSE)
                  ELSE IF _is_escaped(roline, -1)
                  THEN QuotesResult("none",
                           RuleOutput(Slice(roline, 0, beg)
                                          \o _cont_replacement(q.replacement)
                                          \o _eol(line),
                                      NoMsg, FALSE),
                           TRUE)
                  ELSE QuotesResult("none",
                           RuleOutput(roline, Msg("unmatched quote", <<beg + 1>>), TRUE),
                           FALSE)
             ELSE LET replaced == Slice(roline, 0, beg) \o q.replacement
                                      \o From(roline, end + 1)
                  IN  quotes_loop(q, line, replaced,
                          _next_valid_quote(q.quote, replaced,
                                            ScanResume(beg, q.replacement)))

\* ReplaceQuotes.__call__ (lines 457-496)
ReplaceQuotes(q, line, consuming) ==
    IF consuming
    THEN LET end == _next_valid_quote(q.quote, line, 0)
         IN  IF end # -1
             THEN LET roline == _cont_replacement(q.replacement) \o From(line, end + 1)
                  IN  quotes_loop(q, line, roline,
                                  _next_valid_quote(q.quote, roline, end + 1))
             ELSE IF ~ _is_escaped_assert(line, -1)
             THEN QuotesResult("AssertionError", RuleOutput(line, NoMsg, FALSE), TRUE)
             ELSE IF _is_escaped(line, -1)
             THEN QuotesResult("none",
                      RuleOutput(_cont_replacement(q.replacement) \o _eol(line),
                                 NoMsg, FALSE),
                      TRUE)
             ELSE QuotesResult("none",
                      RuleOutput(line, Msg("invalid continuation of string", <<>>), TRUE),
                      TRUE)
    ELSE quotes_loop(q, line, line, _next_valid_quote(q.quote, line, 0))

REMOVED_LINE_FROM_TST_OR_XML_FILE ==
    <<"_","_","R","E","M","O","V","E","D","_","L","I","N","E","_","F","R",
      "O","M","_","T","S","T","_","O","R","_","X","M","L","_","F","I","L",
      "E","_","_">>

\* the end of the match of ^<prefix>\s* in line, -1 when there is none
RECURSIVE SkipSpaces(_, _)
SkipSpaces(line, p) ==
    IF p < Len(line) /\ IsSpace(line[p + 1]) THEN SkipSpaces(line, p + 1) ELSE p

PrefixEnd(line, prefix) ==
    IF OccursAt(line, prefix, 0) THEN SkipSpaces(line, Len(prefix)) ELSE -1

\* a stripper that stays inside the block after a line it removed
RemovePrefix_StaysInBlock(line, ext, consuming) ==
    IF ext = "tst" \/ ext = "xml"
    THEN IF PrefixEnd(line, <<"g","a","p",">">>) # -1
         THEN [line |-> From(line, PrefixEnd(line, <<"g","a","p",">">>)),
               consuming |-> TRUE]
         ELSE IF consuming
         THEN IF PrefixEnd(line, <<">">>) # -1
              THEN [line |-> From(line, PrefixEnd(line, <<">">>)),
                    consuming |-> consuming]
              ELSE [line |-> REMOVED_LINE_FROM_TST_OR_XML_FILE \o _eol(line),
                    consuming |-> consuming]
         ELSE [line |-> REMOVED_LINE_FROM_TST_OR_XML_FILE \o _eol(line),
               consuming |-> consuming]
    ELSE [line |-> line, consuming |-> consuming]

\* RemovePrefix.__call__ (lines 511-526): the line and the new _consuming
RemovePrefix(line, ext, consuming) ==
    IF ext = "tst" \/ ext = "xml"
    THEN IF PrefixEnd(line, <<"g","a","p",">">>) # -1
         THEN [line |-> From(line, PrefixEnd(line, <<"g","a","p",">">>)),
               consuming |-> TRUE]
         ELSE IF consuming
         THEN IF PrefixEnd(line, <<">">>) # -1
              THEN [line |-> From(line, PrefixEnd(line, <<">">>)),
                    consuming |-> consuming]
              ELSE [line |-> REMOVED_LINE_FROM_TST_OR_XML_FILE \o _eol(line),
                    consuming |-> FALSE]
         ELSE [line |-> REMOVED_LINE_FROM_TST_OR_XML_FILE \o _eol(line),
               consuming |-> consuming]
    ELSE [line |-> line, consuming |-> consuming]

-----------------------------------------------------------------------------
(* Indentation (lines 622-672).                                            *)

K_elif == <<"e","l","i","f">>
K_else == <<"e","l","s","e">>
K_end == <<"e","n","d">>
K_od == <<"o","d">>
K_fi == <<"f","i">>
K_until == <<"u","n","t","i","l">>
K_then == <<"t","h","e","n">>
K_do == <<"d","o">>
K_repeat == <<"r","e","p","e","a","t">>
K_function == <<"f","u","n","c","t","i","o","n">>
K_if == <<"i","f">>
K_for == <<"f","o","r">>
K_while == <<"w","h","i","l","e">>
K_local == <<"l","o","c","a","l">>

\* (\W|^)(kw1|kw2|...)(\W|$) matches somewhere in line
HasKeyword(line, kws) ==
    \E kw \in kws : \E p \in 0..(Len(line) - Len(kw)) :
        /\ OccursAt(line, kw, p)
        /\ p = 0 \/ ~ IsWord(line[p])
        /\ p + Len(kw) = Len(line) \/ ~ IsWord(line[p + Len(kw) + 1])

\* Indentation._before and Indentation._after (lines 634-641) for the
\* indentation unit ind
_before(ind) ==
    << [kws |-> {K_elif, K_else}, delta |-> -ind],
       [kws |-> {K_end},          delta |-> -ind],
       [kws |-> {K_od, K_fi},     delta |-> -ind],
       [kws |-> {K_until},        delta |-> -ind] >>

_after(ind) ==
    << [kws |-> {K_then, K_do},                  delta |-> -ind],
       [kws |-> {K_repeat, K_else},              delta |-> ind],
       [kws |-> {K_function},                    delta |-> ind],
       [kws |-> {K_if, K_for, K_while, K_elif},  delta |-> 2 * ind] >>

\* the loops of lines 650-652 and 658-660: the sum of the deltas of the
\* pairs whose pattern is found in line
RECURSIVE Adjust(_, _)
Adjust(line, pairs) ==
    IF pairs = <<>> THEN 0
    ELSE (IF HasKeyword(line, Head(pairs).kws) THEN Head(pairs).delta ELSE 0)
             + Adjust(line, Tail(pairs))

\* Indentation._get_indent_level (lines 663-666) of a line that is not blank
_get_indent_level(line) == SkipSpaces(line, 0)

\* a rule that compares with the expectation before it lowers it
Indentation_ChecksFirst(line, expected, ind) ==
    IF ~ (expected >= 0)
    THEN [exc |-> "AssertionError", ro |-> RuleOutput(line, NoMsg, FALSE),
          expected |-> expected]
    ELSE IF IsBlank(line)
    THEN [exc |-> "none", ro |-> RuleOutput(line, NoMsg, FALSE), expected |-> expected]
    ELSE LET adjusted == expected + Adjust(line, _before(ind))
             found == _get_indent_level(line)
         IN  [exc |-> "none",
              ro |-> RuleOutput(line,
                                IF found < expected
                                THEN Msg("bad indentation", <<found, expected>>)
                                ELSE NoMsg,
                                FALSE),
              expected |-> adjusted + Adjust(line, _after(ind))]

\* Indentation.__call__ (lines 645-661): the exception raised, the output
\* and the new _expected
Indentation(line, expected, ind) ==
    IF ~ (expected >= 0)
    THEN [exc |-> "AssertionError", ro |-> RuleOutput(line, NoMsg, FALSE),
          expected |-> expected]
    ELSE IF IsBlank(line)
    THEN [exc |-> "none", ro |-> RuleOutput(line, NoMsg, FALSE), expected |-> expected]
    ELSE LET adjusted == expected + Adjust(line, _before(ind))
             found == _get_indent_level(line)
         IN  [exc |-> "none",
              ro |-> RuleOutput(line,
                                IF found < adjusted
                                THEN Msg("bad indentation", <<found, adjusted>>)
                                ELSE NoMsg,
                                FALSE),
              expected |-> adjusted + Adjust(line, _after(ind))]

-----------------------------------------------------------------------------
(* UnusedLVarsFunc (lines 695-833).                                        *)

\* the position of the first match of (^|\W)kw(\W) in line, counted at the
\* first letter of kw; -1 when there is none (lines 706-708)
KeywordPos(line, kw) ==
    LET hits == { p \in 0..(Len(line) - Len(kw) - 1) :
                    /\ OccursAt(line, kw, p)
                    /\ p = 0 \/ ~ IsWord(line[p])
                    /\ ~ IsWord(line[p + Len(kw) + 1]) }
    IN  IF hits = {} THEN -1 ELSE CHOOSE p \in hits : \A q \in hits : p <= q

\* _is_function_declared, _is_end_declared, _is_local_declared
\* (lines 722-729)
_is_function_declared(line) == KeywordPos(line, K_function) # -1
_is_end_declared(line) == KeywordPos(line, K_end) # -1
_is_local_declared(line) == KeywordPos(line, K_local) # -1

\* the matches of \w+ in s, in order
RECURSIVE WordsOf(_)
WordsOf(s) ==
    IF s = <<>> THEN <<>>
    ELSE IF ~ IsWord(Head(s)) THEN WordsOf(Tail(s))
    ELSE LET n == CHOOSE n \in 1..Len(s) :
                      /\ \A k \in 1..n : IsWord(s[k])
                      /\ n = Len(s) \/ ~ IsWord(s[n + 1])
         IN  <<SubSeq(s, 1, n)>> \o WordsOf(From(s, n))

\* self._var_p.findall(line, start, end) (lines 733, 787): a negative
\* endpos is taken as 0 and the text is cut at endpos before matching
FindallWords(line, start, end) ==
    LET e == Min(Max(end, 0), Len(line))
    IN  IF start >= e THEN <<>> ELSE WordsOf(Slice(line, start, e))

\* self._keywords (lines 710-712)
_keywords ==
    { <<"t","r","u","e">>, <<"f","a","l","s","e">>,
      <<"c","o","n","t","i","n","u","e">>, <<"b","r","e","a","k">>,
      K_if, K_fi, K_else, K_for, K_od, K_while, K_repeat, K_until,
      <<"r","e","t","u","r","n">>, REMOVED_STRING, REMOVED_CHAR }

\* the fields of the rule: UlvState(consuming_args, consuming_lvars, depth,
\* args, lvars)
UlvState(ca, cl, depth, a, l) ==
    [consuming_args |-> ca, consuming_lvars |-> cl, depth |-> depth,
     args |-> a, lvars |-> l]

UlvResult(e, r, st) == [exc |-> e, ro |-> r, st |-> st]

\* list[index] of Python for index >= -1: the 1-based position, 0 when the
\* index is out of range (IndexError)
PyIndex(list, index) ==
    IF index >= 0 THEN (IF index < Len(list) THEN index + 1 ELSE 0)
    ELSE (IF Len(list) + index >= 0 THEN Len(list) + index + 1 ELSE 0)

\* the loop of _add_function_args (lines 735-743) over the names new_args:
\* the set of arguments and the message after it
RECURSIVE add_args_loop(_, _, _)
add_args_loop(new_args, argset, msg) ==
    IF new_args = <<>> THEN [set |-> argset, msg |-> msg]
    ELSE LET var == Head(new_args)
         IN  IF var \in argset
             THEN add_args_loop(Tail(new_args), argset,
                                Msg("duplicate function argument", <<var>>))
             ELSE IF var \in _keywords
             THEN add_args_loop(Tail(new_args), argset,
                                Msg("function argument is keyword", <<var>>))
             ELSE add_args_loop(Tail(new_args), argset \cup {var}, msg)

\* _add_function_args (lines 731-745)
_add_function_args(st, line, start, end) ==
    LET at == PyIndex(st.args, st.depth)
    IN  IF at = 0 THEN UlvResult("IndexError", RuleOutput(line, NoMsg, FALSE), st)
        ELSE LET got == add_args_loop(FindallWords(line, start, end), st.args[at], NoMsg)
             IN  UlvResult("none",
                     RuleOutput(line, got.msg, got.msg.kind # "None"),
                     [st EXCEPT !.args[at] = got.set,
                                !.consuming_args = (Find(line, <<")">>, start) = -1)])

\* _new_function (lines 747-760)
_new_function(st, line) ==
    IF st.consuming_args \/ st.consuming_lvars
    THEN UlvResult("AssertionError", RuleOutput(line, NoMsg, FALSE), st)
    ELSE IF st.depth + 1 # Len(st.args) \/ st.depth + 1 # Len(st.lvars)
    THEN UlvResult("AssertionError", RuleOutput(line, NoMsg, FALSE),
                   [st EXCEPT !.depth = st.depth + 1])
    ELSE LET m_start_3 == KeywordPos(line, K_function) + Len(K_function)
             start == Find(line, <<"(">>, m_start_3) + 1
             end == Find(line, <<")">>, start)
             pushed == [st EXCEPT !.depth = st.depth + 1,
                                  !.lvars = Append(st.lvars, {}),
                                  !.args = Append(st.args, {}),
                                  !.consuming_args = (end = -1)]
         IN  _add_function_args(pushed, line, start, end)

\* _end_function (lines 762-779)
_end_function(st, line) ==
    IF st.consuming_args \/ st.consuming_lvars
    THEN UlvResult("AssertionError", RuleOutput(line, NoMsg, FALSE), st)
    ELSE IF st.lvars = <<>>
    THEN UlvResult("IndexError", RuleOutput(line, NoMsg, FALSE),
                   [st EXCEPT !.depth = st.depth - 1])
    ELSE IF st.args = <<>>
    THEN UlvResult("IndexError", RuleOutput(line, NoMsg, FALSE),
                   [st EXCEPT !.depth = st.depth - 1,
                              !.lvars = SubSeq(st.lvars, 1, Len(st.lvars) - 1)])
    ELSE LET lvars == st.lvars[Len(st.lvars)]
         IN  UlvResult("none",
                 RuleOutput(line,
                            IF lvars # {} THEN Msg("unused local variables", lvars)
                            ELSE NoMsg,
                            FALSE),
                 [st EXCEPT !.depth = st.depth - 1,
                            !.lvars = SubSeq(st.lvars, 1, Len(st.lvars) - 1),
                            !.args = SubSeq(st.args, 1, Len(st.args) - 1)])

\* the loop of _add_lvars (lines 788-799)
RECURSIVE add_lvars_loop(_, _, _, _)
add_lvars_loop(new_lvars, lvarset, argset, msg) ==
    IF new_lvars = <<>> THEN [set |-> lvarset, msg |-> msg]
    ELSE LET var == Head(new_lvars)
         IN  IF var \in lvarset
             THEN add_lvars_loop(Tail(new_lvars), lvarset, argset,
                                 Msg("name used for two locals", <<var>>))
             ELSE IF var \in argset
             THEN add_lvars_loop(Tail(new_lvars), lvarset, argset,
                                 Msg("name used for argument and local", <<var>>))
             ELSE IF var \in _keywords
             THEN add_lvars_loop(Tail(new_lvars), lvarset, argset,
                                 Msg("local is keyword", <<var>>))
             ELSE IF var # K_local
             THEN add_lvars_loop(Tail(new_lvars), lvarset \cup {var}, argset, msg)
             ELSE add_lvars_loop(Tail(new_lvars), lvarset, argset, msg)

\* _add_lvars (lines 781-800)
_add_lvars(st, line) ==
    LET end == Find(line, <<";">>, 0)
        st1 == [st EXCEPT !.consuming_lvars = (end = -1)]
        at == PyIndex(st.lvars, st.depth)
    IN  IF at = 0 \/ PyIndex(st.args, st.depth) = 0
        THEN UlvResult("IndexError", RuleOutput(line, NoMsg, FALSE), st1)
        ELSE LET got == add_lvars_loop(FindallWords(line, 0, end), st.lvars[at],
                                       st.args[PyIndex(st.args, st.depth)], NoMsg)
             IN  UlvResult("none",
                     RuleOutput(line, got.msg, got.msg.kind # "None"),
                     [st1 EXCEPT !.lvars[at] = got.set])

\* _remove_lvars (lines 802-810)
_remove_lvars(st, line) ==
    LET used == { FindallWords(line, 0, Len(line))[k] :
                    k \in 1..Len(FindallWords(line, 0, Len(line))) }
    IN  IF st.depth + 1 > Len(st.lvars) \/ st.depth + 1 > Len(st.args)
        THEN IF used = {} THEN UlvResult("none", RuleOutput(line, NoMsg, FALSE), st)
             ELSE UlvResult("IndexError", RuleOutput(line, NoMsg, FALSE), st)
        ELSE UlvResult("none", RuleOutput(line, NoMsg, FALSE),
                 [st EXCEPT !.lvars = [d \in 1..Len(st.lvars) |->
                                          IF d <= st.depth + 1 THEN st.lvars[d] \ used
                                          ELSE st.lvars[d]],
                            !.args = [d \in 1..Len(st.args) |->
                                         IF d <= st.depth + 1 THEN st.args[d] \ used
                                         ELSE st.args[d]]])

\* lines 816-818 and 821-823: after a declaration without message on a
\* line that also closes a function
remove_then_end(res, line) ==
    IF res.exc = "none" /\ ~ HasMsg(res.ro) /\ _is_end_declared(line)
    THEN LET removed == _remove_lvars(res.st, line)
         IN  IF removed.exc # "none" THEN removed
             ELSE _end_function(removed.st, line)
    ELSE res

\* UnusedLVarsFunc.__call__ (lines 812-830)
UnusedLVarsFunc(st, line) ==
    IF _is_function_declared(line)
    THEN remove_then_end(_new_function(st, line), line)
    ELSE IF _is_local_declared(line) \/ st.consuming_lvars
    THEN remove_then_end(_add_lvars(st, line), line)
    ELSE IF _is_end_declared(line) THEN _end_function(st, line)
    ELSE IF st.consuming_args
    THEN _add_function_args(st, line, 0, Find(line, <<")">>, 0))
    ELSE IF st.depth >= 0 THEN _remove_lvars(st, line)
    ELSE UlvResult("none", RuleOutput(line, NoMsg, FALSE), st)

-----------------------------------------------------------------------------
(* Suppressions (lines 1009-1213).                                         *)

T_gaplint == <<"g","a","p","l","i","n","t",":">>
T_disable == <<"d","i","s","a","b","l","e">>
T_nextline == <<"(","n","e","x","t","l","i","n","e",")">>

\* the end of a match of gaplint:\s*disable<tail>=\s* that starts at p,
\* -1 when there is none; tail is \s* for a same-line directive (lines
\* 1065, 1107) and \(nextline\) for a next-line directive (line 1108)
DirectiveTail(line, p, nextline) ==
    IF ~ OccursAt(line, T_gaplint, p) THEN -1
    ELSE LET d == SkipSpaces(line, p + Len(T_gaplint))
         IN  IF ~ OccursAt(line, T_disable, d) THEN -1
             ELSE LET e == IF nextline
                           THEN (IF OccursAt(line, T_nextline, d + Len(T_disable))
                                 THEN d + Len(T_disable) + Len(T_nextline) ELSE -1)
                           ELSE SkipSpaces(line, d + Len(T_disable))
                  IN  IF e # -1 /\ OccursAt(line, <<"=">>, e)
                      THEN SkipSpaces(line, e + 1) ELSE -1

\* match.end() of the first match of #\s*gaplint:\s*disable\s*=\s* (line
\* 1107; with the leading \s* of line 1065 the match ends at the same
\* place), -1 when the pattern is not found
SameLineDirectiveEnd(line) ==
    LET hits == { p \in 0..(Len(line) - 1) :
                    /\ line[p + 1] = "#"
                    /\ DirectiveTail(line, SkipSpaces(line, p + 1), FALSE) # -1 }
    IN  IF hits = {} THEN -1
        ELSE DirectiveTail(line,
                 SkipSpaces(line, (CHOOSE p \in hits : \A q \in hits : p <= q) + 1),
                 FALSE)

\* match.end() of the first match of #\s* gaplint:\s*disable\(nextline\)=\s*
\* (line 1108): the character before gaplint: is a space
NextLineDirectiveEnd(line) ==
    LET ok(p) == /\ line[p + 1] = "#"
                 /\ SkipSpaces(line, p + 1) > p + 1
                 /\ line[SkipSpaces(line, p + 1)] = " "
                 /\ DirectiveTail(line, SkipSpaces(line, p + 1), TRUE) # -1
        hits == { p \in 0..(Len(line) - 1) : ok(p) }
    IN  IF hits = {} THEN -1
        ELSE DirectiveTail(line,
                 SkipSpaces(line, (CHOOSE p \in hits : \A q \in hits : p <= q) + 1),
                 TRUE)

\* the end of the longest run of word characters that starts at p
RECURSIVE WordRunEnd(_, _)
WordRunEnd(s, p) ==
    IF p < Len(s) /\ IsWord(s[p + 1]) THEN WordRunEnd(s, p + 1) ELSE p

\* the end of (-\w+)* at p
RECURSIVE DashWordsEnd(_, _)
DashWordsEnd(s, p) ==
    IF p + 1 < Len(s) /\ s[p + 1] = "-" /\ IsWord(s[p + 2])
    THEN DashWordsEnd(s, WordRunEnd(s, p + 1))
    ELSE p

\* the end of (-\S+){0,1} at p
RECURSIVE NonSpaceEnd(_, _)
NonSpaceEnd(s, p) ==
    IF p < Len(s) /\ ~ IsSpace(s[p + 1]) THEN NonSpaceEnd(s, p + 1) ELSE p

DashRestEnd(s, p) ==
    IF p + 1 < Len(s) /\ s[p + 1] = "-" /\ ~ IsSpace(s[p + 2])
    THEN NonSpaceEnd(s, p + 1)
    ELSE p

\* pattern.findall of ((\w+(-\w+)*)+(-\S+){0,1}) (lines 1066, 1114): the
\* groups 1 and 2 of every match, in order.  Groups 3 and 4 are empty or
\* begin with '-', so that __rule_code finds no rule for them.
RECURSIVE FindallRules(_, _)
FindallRules(s, from) ==
    LET starts == { p \in from..(Len(s) - 1) : IsWord(s[p + 1]) }
    IN  IF starts = {} THEN <<>>
        ELSE LET p == CHOOSE p \in starts : \A q \in starts : p <= q
                 e2 == DashWordsEnd(s, WordRunEnd(s, p))
                 e1 == DashRestEnd(s, e2)
             IN  <<Slice(s, p, e1), Slice(s, p, e2)>> \o FindallRules(s, e1)

\* __unpack_tuple_list (lines 1033-1050) on the groups of the matches
RECURSIVE unpack_from(_, _)
unpack_from(rules, supp_codes) ==
    IF rules = <<>> THEN supp_codes
    ELSE IF Head(rules) = T_all THEN __get_all_rules_list
    ELSE LET code == __rule_code(Head(rules))
         IN  unpack_from(Tail(rules),
                 IF code # "False" /\ ~ InList(code, supp_codes)
                 THEN Append(supp_codes, code) ELSE supp_codes)

__unpack_tuple_list(rules) == unpack_from(rules, <<>>)

\* the call make_dic(keys, vals) of lines 1085 and 1127: the module defines
\* __make_dic (lines 1022-1031) and no make_dic, so the call raises
\* NameError; its value would be the set of keys
make_dic(keys) == [exc |-> "NameError", dic |-> {}]

\* the set of the elements of a list
Elems(list) == { list[k] : k \in 1..Len(list) }

\* pattern1 of __get_global_suppdic (line 1064): ^\s*($|#)
IsBlankOrComment(line) ==
    IsBlank(line) \/ (SkipSpaces(line, 0) < Len(line) /\ line[SkipSpaces(line, 0) + 1] = "#")

\* the while loop of __get_global_suppdic (lines 1074-1092) from index i
\* with the codes found so far; lines[n] raises IndexError
RECURSIVE global_suppdic_loop(_, _, _)
global_suppdic_loop(lns, k, G_suppdic) ==
    IF ~ (IsBlankOrComment(lns[k + 1]) /\ k < Len(lns))
    THEN [exc |-> "none", dic |-> G_suppdic]
    ELSE LET e == SameLineDirectiveEnd(lns[k + 1])
             supp_codes == __unpack_tuple_list(FindallRules(lns[k + 1], e))
         IN  IF e # -1 /\ supp_codes = __get_all_rules_list
             THEN make_dic(__get_all_rules_list)
             ELSE IF k + 1 >= Len(lns)
             THEN [exc |-> "IndexError", dic |-> G_suppdic]
             ELSE global_suppdic_loop(lns, k + 1,
                      IF e # -1 THEN G_suppdic \cup Elems(supp_codes) ELSE G_suppdic)

\* __get_global_suppdic (lines 1052-1093): the exception raised and the set
\* of the keys of the dictionary returned
__get_global_suppdic(lns) ==
    IF lns = <<>> THEN [exc |-> "IndexError", dic |-> {}]
    ELSE global_suppdic_loop(lns, 0, {})

\* __get_line_suppressions (lines 1095-1128): the exception raised,
\* is_nextline and the keys of the dictionary
__get_line_suppressions(line) ==
    LET match1 == SameLineDirectiveEnd(line)
        match2 == NextLineDirectiveEnd(line)
        valid == __unpack_tuple_list(
                     FindallRules(line, IF match2 # -1 THEN match2 ELSE match1))
    IN  IF match1 = -1 /\ match2 = -1
        THEN [exc |-> "none", is_nextline |-> FALSE, dic |-> {}]
        ELSE IF valid = <<>>
        THEN [exc |-> "none", is_nextline |-> (match2 # -1), dic |-> {}]
        ELSE [exc |-> make_dic(valid).exc, is_nextline |-> (match2 # -1),
              dic |-> make_dic(valid).dic]

\* the loop of __get_lines_suppdic (lines 1141-1151) from index k
RECURSIVE lines_suppdic_loop(_, _, _)
lines_suppdic_loop(lns, k, dic) ==
    IF k >= Len(lns) THEN [exc |-> "none", dic |-> dic]
    ELSE LET got == __get_line_suppressions(lns[k + 1])
             at == IF got.is_nextline THEN k + 1 ELSE k
         IN  IF got.exc # "none" THEN [exc |-> got.exc, dic |-> dic]
             ELSE lines_suppdic_loop(lns, k + 1,
                      IF got.dic = {} THEN dic
                      ELSE IF at \notin DOMAIN dic THEN DictSet(dic, at, got.dic)
                      ELSE DictSet(dic, at, dic[at] \cup got.dic))

\* __get_lines_suppdic (lines 1130-1152): the exception raised and the
\* table: line index -> set of codes
__get_lines_suppdic(lns) == lines_suppdic_loop(lns, 0, EmptyDict)

\* the lines __set_suppression_dics reads from a file (lines 1167-1173)
ReadLinesOrNone(f) == IF f.readable THEN f.text ELSE <<>>

\* lines 1178-1181: the tables of the file fname are entered
EnterTables(acc, fname, lines_suppdic, global_suppdic) ==
    IF acc.exc # "none" THEN acc
    ELSE IF lines_suppdic.exc # "none"
    THEN [acc EXCEPT !.exc = lines_suppdic.exc]
    ELSE IF global_suppdic.exc # "none"
    THEN [acc EXCEPT !.exc = global_suppdic.exc]
    ELSE [exc |-> "none",
          dic |-> IF DOMAIN lines_suppdic.dic # {}
                  THEN DictSet(acc.dic, fname, lines_suppdic.dic) ELSE acc.dic,
          G_dic |-> IF global_suppdic.dic # {}
                    THEN DictSet(acc.G_dic, fname, global_suppdic.dic) ELSE acc.G_dic]

\* lines 1167-1181 for one file
SuppressionsOfFile(acc, f, lns) ==
    EnterTables(acc, f.name, __get_lines_suppdic(lns), __get_global_suppdic(lns))

\* the loop of __set_suppression_dics (lines 1166-1181) over the first k
\* files
RECURSIVE set_suppression_loop(_, _)
set_suppression_loop(fs, k) ==
    IF k = 0 THEN [exc |-> "none", dic |-> EmptyDict, G_dic |-> EmptyDict]
    ELSE SuppressionsOfFile(set_suppression_loop(fs, k - 1), fs[k],
                            ReadLinesOrNone(fs[k]))

\* __set_suppression_dics (lines 1154-1183): the exception raised and the
\* new __SUPPRESSIONS and __GLOBAL_SUPPRESSIONS
__set_suppression_dics(fs) == set_suppression_loop(fs, Len(fs))

\* __is_rule_suppressed (lines 1197-1213)
__is_rule_suppressed(g_supps, l_supps, fname, linenum, code) ==
    IF fname \in DOMAIN g_supps THEN code \in g_supps[fname]
    ELSE IF fname \in DOMAIN l_supps
    THEN (IF linenum \in DOMAIN l_supps[fname] THEN code \in l_supps[fname][linenum]
          ELSE FALSE)
    ELSE FALSE

\* the globals after __set_user_config_dic gave conf and
\* __set_suppression_dics gave tabs
Preferences(conf, tabs, supps, g_supps) ==
    IF conf.exc # "none"
    THEN [exc |-> conf.exc, config |-> conf.config,
          supps |-> supps, g_supps |-> g_supps]
    ELSE IF tabs.exc # "none"
    THEN [exc |-> tabs.exc, config |-> conf.config,
          supps |-> supps, g_supps |-> g_supps]
    ELSE [exc |-> "none", config |-> conf.config,
          supps |-> tabs.dic, g_supps |-> tabs.G_dic]

\* __load_user_preferences (lines 1237-1245): the exception raised and the
\* new values of the three global tables
__load_user_preferences(a, y, fs, config, supps, g_supps) ==
    Preferences(__set_user_config_dic(a, y, config), __set_suppression_dics(fs),
                supps, g_supps)

\* the test of line 1231 on the resolved configuration
IsDisabled(code, config) == InList(code, get_config_val_in(config, "disable"))

\* lines 1231-1235 after the load of the preferences gave pref: the
\* exception raised, the value returned, and the globals after the call
DispatchAnswer(g, pref, fname, linenum, code) ==
    [exc     |-> pref.exc,
     loaded  |-> g.loaded \/ pref.exc = "none",
     config  |-> pref.config,
     supps   |-> pref.supps,
     g_supps |-> pref.g_supps,
     val     |-> /\ pref.exc = "none"
                 /\ \/ IsDisabled(code, pref.config)
                    \/ __is_rule_suppressed(pref.g_supps, pref.supps,
                                            fname, linenum, code)]

\* lines 1228-1230: the preferences are loaded by the first call
LoadOnce(env, g) ==
    IF g.loaded
    THEN [exc |-> "none", config |-> g.config,
          supps |-> g.supps, g_supps |-> g.g_supps]
    ELSE __load_user_preferences(env.args, env.yml, env.files,
                                 g.config, g.supps, g.g_supps)

\* __is_rule_disabled_or_suppressed (lines 1220-1235).  env holds args,
\* the configuration file and the files; g holds the four globals.
__is_rule_disabled_or_suppressed(env, g, fname, linenum, code) ==
    DispatchAnswer(g, LoadOnce(env, g), fname, linenum, code)

-----------------------------------------------------------------------------
(* The state after the module is imported (lines 20-29, 920-983).          *)

\* the fields the constructors of the rules set (lines 393-395, 440-445,
\* 505-506, 630-633, 678-680, 699-705); Indentation reads the indentation
\* unit when it is constructed
RulesConstructed ==
    [ml_consuming     |-> FALSE,
     dq_consuming     |-> FALSE,
     sq_consuming     |-> FALSE,
     ind              |-> get_config_val_in(EmptyDict, "indentation"),
     expected         |-> 0,
     prev_line_empty  |-> FALSE,
     consuming_args   |-> FALSE,
     consuming_lvars  |-> FALSE,
     depth            |-> -1,
     args             |-> <<>>,
     lvars            |-> <<>>]

NoRuleOutput == [line |-> <<>>, msg |-> "None", abort |-> FALSE]

NoArgs ==
    [max_warnings |-> 0, columns |-> 0, indentation |-> 0,
     disable |-> [t |-> "list", v |-> <<>>], files |-> <<>>]

\* NotGiven and Given(val): an option that is absent from, or present in,
\* the keyword arguments
NotGiven == [given |-> FALSE, v |-> 0]
Given(val) == [given |-> TRUE, v |-> val]

T_W012 == <<"W","0","1","2">>
T_M001 == <<"M","0","0","1">>

\* the message of _exit_abort (lines 244-249) and the case of no exit
ExitMsg(kind, n) == [kind |-> kind, n |-> n]
NoExit == ExitMsg("None", 0)

\* sys.exit has not been called
NotExited == -1

\* no function has been called alone
NoRet == [exc |-> "none", dic |-> {}]

\* what the run has done so far: the rule applications (file, line, code),
\* the number of outputs that carried a message, the fields of the
\* rules when the last file ended, before they were reset, and the number
\* of the call of run_gaplint in the process (the first call is 1)
HistInit == [applied |-> <<>>, msgs |-> 0, at_end |-> RulesConstructed, calls |-> 1]

\* the globals and the rule objects after the import, and the locals of
\* run_gaplint that a call has not bound yet
ModuleImported ==
    /\ __SUPPRESSIONS = EmptyDict
    /\ __GLOBAL_SUPPRESSIONS = EmptyDict
    /\ __USER_PREFERENCES_LOADED = FALSE
    /\ args = NoArgs
    /\ exc = "none"
    /\ exit_msg = NoExit
    /\ fi = 0
    /\ i = 0
    /\ ri = 0
    /\ nr_warnings = 0
    /\ total_nr_warnings = 0
    /\ ro = NoRuleOutput
    /\ is_rule_supp = FALSE
    /\ RULES = RulesConstructed
    /\ _remove_prefix = FALSE
    /\ hist = HistInit
    /\ ret = NoRet
    /\ _SILENT = TRUE
    /\ exit_code = NotExited

ProgramInit ==
    /\ __CONFIG = EmptyDict
    /\ pc = "start"
    /\ lines = [bound |-> FALSE, v |-> <<>>]
    /\ ModuleImported

-----------------------------------------------------------------------------
(* Configuration resolution on its own: every combination of overrides     *)
(* and of contents of the configuration file.                              *)

ConfigKwargs ==
    [max_warnings : {NotGiven, Given(DefaultMaxWarnings), Given(1)},
     columns      : {NotGiven, Given(DefaultColumns), Given(DefaultColumns + 20)},
     indentation  : {NotGiven, Given(DefaultIndentation), Given(DefaultIndentation + 2)},
     disable      : {[given |-> FALSE, v |-> <<>>], [given |-> TRUE, v |-> <<>>],
                     [given |-> TRUE, v |-> T_W012],
                     [given |-> TRUE, v |-> T_W012 \o <<",", " ">> \o N_remove_comments],
                     [given |-> TRUE, v |-> T_all]}]

\* values of the dictionary yaml.load returns: an int, a list of str, or
\* a value of another type (None, str)
YmlInt(n) == [t |-> "int", n |-> n, l |-> <<>>]
YmlList(l) == [t |-> "list_of_str", n |-> 0, l |-> l]
YmlOther(t) == [t |-> t, n |-> 0, l |-> <<>>]

\* the entries a configuration file may hold for each key
YmlEntries(key) ==
    CASE key = "columns"      -> {YmlInt(DefaultColumns + 40), YmlOther("str")}
      [] key = "max_warnings" -> {YmlInt(2)}
      [] key = "indentation"  -> {YmlInt(DefaultIndentation + 1)}
      [] key = "disable"      -> {YmlOther("None"), YmlList(<<>>),
                                  YmlList(<<N_tabs>>), YmlInt(1)}
      [] OTHER                -> {YmlOther("str")}

YmlDicts ==
    UNION { { d \in [ks -> UNION { YmlEntries(k) : k \in ks }] :
                \A k \in ks : d[k] \in YmlEntries(k) } :
            ks \in SUBSET (ConfigKeys \cup {"colums"}) }

ConfigYmls ==
    { [file |-> f, dic |-> EmptyDict] : f \in {"none", "ioerror", "scanerror", "empty"} }
    \cup { [file |-> "dict", dic |-> d] : d \in YmlDicts }

InitConfig ==
    /\ kwargs \in ConfigKwargs
    /\ yml \in ConfigYmls
    /\ files = <<>>
    /\ ProgramInit

\* __load_user_preferences (lines 1237-1245), the configuration half: the
\* call of __set_user_config_dic on the parsed arguments
ResolveConfig ==
    /\ pc = "start"
    /\ LET a == _parse_args(kwargs, files, __CONFIG)
           got == __set_user_config_dic(a, yml, __CONFIG)
       IN  /\ args' = a
           /\ __CONFIG' = got.config
           /\ exc' = got.exc
    /\ pc' = "resolved"
    /\ UNCHANGED << kwargs, yml, files, __SUPPRESSIONS, __GLOBAL_SUPPRESSIONS,
                    __USER_PREFERENCES_LOADED, exit_msg, fi, i, ri, lines,
                    nr_warnings, total_nr_warnings, ro, is_rule_supp, RULES,
                    _remove_prefix, hist, ret, _SILENT, exit_code >>

NextConfig == ResolveConfig

SpecConfig == InitConfig /\ [][NextConfig]_vars

-----------------------------------------------------------------------------
(* run_gaplint (lines 1251-1319).                                          *)

\* rule.skip(ext) of the rule at position r of RULES (lines 348-355,
\* 596-597, 671-672, 832-833, 924)
RuleSkip(r, ext) ==
    IF __get_all_rules_list[r] \in {"W003", "W004", "W028"}
    THEN _skip_tst_or_xml_file(ext) ELSE FALSE

\* the fields of UnusedLVarsFunc inside the record of the rule states
UlvOf(rs) ==
    UlvState(rs.consuming_args, rs.consuming_lvars, rs.depth, rs.args, rs.lvars)

WithUlv(rs, st) ==
    [rs EXCEPT !.consuming_args = st.consuming_args,
               !.consuming_lvars = st.consuming_lvars,
               !.depth = st.depth, !.args = st.args, !.lvars = st.lvars]

Applied(e, r, rs) == [exc |-> e, ro |-> r, rules |-> rs]

\* rule(lines[i]) for the rule at position r of RULES (line 1288): the
\* exception raised, the output and the new states of the rules
ApplyRule(r, line, rs, config) ==
    LET code == __get_all_rules_list[r]
    IN  CASE code = "W001" -> Applied("none", LineTooLong(line, config), rs)
          [] code = "W002" ->
                LET got == ConsecutiveEmptyLines(line, rs.prev_line_empty)
                IN  Applied("none", got.ro,
                            [rs EXCEPT !.prev_line_empty = got.prev_line_empty])
          [] code = "W003" -> Applied("none", TrailingWhitespace(line), rs)
          [] code = "M001" -> Applied("none", RemoveComments(line), rs)
          [] code = "M002" ->
                \* _eol indexes line[-1] (line 238): an empty line, which is
                \* what RemoveComments leaves of a last line '#...' without
                \* newline, raises IndexError at line 406
                IF rs.ml_consuming /\ line = <<>>
                THEN Applied("IndexError", RuleOutput(line, NoMsg, FALSE), rs)
                ELSE
                LET got == ReplaceMultilineStrings(line, rs.ml_consuming)
                IN  Applied("none", got.ro, [rs EXCEPT !.ml_consuming = got.consuming])
          [] code = "M003" ->
                LET got == ReplaceQuotes(DoubleQuote, line, rs.dq_consuming)
                IN  Applied(got.exc, got.ro, [rs EXCEPT !.dq_consuming = got.consuming])
          [] code = "M004" ->
                LET got == ReplaceQuotes(EscapedQuote, line, rs.sq_consuming)
                IN  Applied(got.exc, got.ro, [rs EXCEPT !.sq_consuming = got.consuming])
          [] code = "W004" ->
                LET got == Indentation(line, rs.expected, rs.ind)
                IN  Applied(got.exc, got.ro, [rs EXCEPT !.expected = got.expected])
          [] code = "W012" -> Applied("none", Tabs(line), rs)
          [] code = "W028" ->
                LET got == UnusedLVarsFunc(UlvOf(rs), line)
                IN  Applied(got.exc, got.ro, WithUlv(rs, got.st))

\* an Indentation rule that inherits the empty Rule.reset (lines 337-346)
ResetIndentation_Inherited(rs) == rs

\* Indentation.reset (lines 668-669)
ResetIndentation(rs) == [rs EXCEPT !.expected = 0]

\* the loop of lines 1306-1307: rule.reset() for every rule of RULES.  Only
\* ReplaceMultilineStrings (420-421), Indentation (668-669),
\* ConsecutiveEmptyLines (692-693) and UnusedLVarsFunc (714-719) define
\* reset; the others inherit Rule.reset (337-346), which does nothing.
ResetRules(rs) ==
    [ResetIndentation(rs) EXCEPT !.ml_consuming = FALSE,
                                 !.prev_line_empty = FALSE,
                                 !.consuming_args = FALSE,
                                 !.consuming_lvars = FALSE,
                                 !.depth = -1,
                                 !.args = <<>>,
                                 !.lvars = <<>>]

\* a loop that treats a fatal output as a warning
ExitOnAbort_Never(r) == FALSE

\* the test of line 1299
ExitOnAbort(r) == r.abort

\* the test of line 1303
TooManyWarnings(count, max_warnings) == count >= max_warnings

Env == [args |-> args, yml |-> yml, files |-> [k \in 1..Len(args.files) |-> files[args.files[k]]]]

Globals ==
    [loaded |-> __USER_PREFERENCES_LOADED, config |-> __CONFIG,
     supps |-> __SUPPRESSIONS, g_supps |-> __GLOBAL_SUPPRESSIONS]

\* lines 864-875 of _parse_args: the option --silent, False when absent
parse_silent(kw) == kw.silent

\* sys.exit(message) of _exit_abort (lines 244-249): a string argument is
\* printed and the status is 1
AbortStatus == 1

\* lines 1311-1319 when __name__ is '__main__': the status of the sys.exit
\* reached after the last file
FinishStatus(total, silent) == IF total # 0 /\ ~ silent THEN 1 ELSE 0

\* line 1266 and line 1268
ParseArgs ==
    /\ pc = "start"
    /\ args' = _parse_args(kwargs, files, __CONFIG)
    /\ _SILENT' = parse_silent(kwargs)
    /\ total_nr_warnings' = 0
    /\ fi' = 1
    /\ pc' = "file"
    /\ UNCHANGED << kwargs, yml, files, __CONFIG, __SUPPRESSIONS,
                    __GLOBAL_SUPPRESSIONS, __USER_PREFERENCES_LOADED, exc, exit_msg,
                    i, ri, lines, nr_warnings, ro, is_rule_supp, RULES,
                    _remove_prefix, hist, ret, exit_code >>

\* lines 1270-1279: the next file is opened and read.  When open raises
\* IOError the local lines keeps its value; it is unbound before the first
\* file is read.
OpenFile ==
    /\ pc = "file"
    /\ fi <= Len(args.files)
    /\ LET f == files[args.files[fi]]
           read == IF f.readable THEN [bound |-> TRUE, v |-> f.text] ELSE lines
       IN  /\ lines' = read
           /\ IF read.bound
              THEN pc' = "line" /\ exc' = exc
              ELSE pc' = "raised" /\ exc' = "UnboundLocalError"
    /\ nr_warnings' = 0
    /\ i' = 0
    /\ UNCHANGED << kwargs, yml, files, __CONFIG, __SUPPRESSIONS,
                    __GLOBAL_SUPPRESSIONS, __USER_PREFERENCES_LOADED, args, exit_msg,
                    fi, ri, total_nr_warnings, ro, is_rule_supp, RULES,
                    _remove_prefix, hist, ret, _SILENT, exit_code >>

\* line 1281: the prefix is removed from the next line of the file
StartLine ==
    /\ pc = "line"
    /\ i < Len(lines.v)
    /\ LET got == RemovePrefix(lines.v[i + 1], files[args.files[fi]].ext, _remove_prefix)
       IN  /\ lines' = [lines EXCEPT !.v[i + 1] = got.line]
           /\ _remove_prefix' = got.consuming
    /\ ri' = 1
    /\ pc' = "rule"
    /\ UNCHANGED << kwargs, yml, files, __CONFIG, __SUPPRESSIONS,
                    __GLOBAL_SUPPRESSIONS, __USER_PREFERENCES_LOADED, args, exc,
                    exit_msg, fi, i, nr_warnings, total_nr_warnings, ro,
                    is_rule_supp, RULES, hist, ret, _SILENT, exit_code >>

\* lines 1288-1304: the rule is applied to the line; got is the result of
\* rule(lines[i]) and nr the number of warnings of the file after it
CountAndExit(code, got, nr) ==
    /\ RULES' = got.rules
    /\ hist' = [hist EXCEPT
                  !.applied = Append(hist.applied,
                                     [file |-> fi, line |-> i, code |-> code]),
                  !.msgs = hist.msgs + (nr - nr_warnings)]
    /\ IF got.exc # "none"
       THEN /\ pc' = "raised" /\ exc' = got.exc
            /\ UNCHANGED << ro, nr_warnings, lines, exit_msg, ri, exit_code >>
       ELSE /\ ro' = got.ro
            /\ nr_warnings' = nr
            /\ exc' = exc
            /\ IF ExitOnAbort(got.ro)
               THEN /\ exit_msg' = ExitMsg("warnings", total_nr_warnings + nr)
                    /\ exit_code' = AbortStatus
                    /\ pc' = "aborted"
                    /\ UNCHANGED << lines, ri >>
               ELSE /\ lines' = [lines EXCEPT !.v[i + 1] = got.ro.line]
                    /\ IF TooManyWarnings(total_nr_warnings + nr, args.max_warnings)
                       THEN /\ exit_msg' = ExitMsg("too many warnings", 0)
                            /\ exit_code' = AbortStatus
                            /\ pc' = "aborted"
                            /\ ri' = ri
                       ELSE /\ exit_msg' = exit_msg
                            /\ exit_code' = exit_code
                            /\ pc' = "rule"
                            /\ ri' = ri + 1

\* the number of warnings of the file after the result got (lines 1296-1297)
CountMsg(got) ==
    IF got.exc = "none" /\ HasMsg(got.ro) THEN nr_warnings + 1 ELSE nr_warnings

\* lines 1286-1288: got is the result of rule(lines[i])
ApplyAndCount(code, got) == CountAndExit(code, got, CountMsg(got))

\* lines 1283-1304 for the rule code on a line of the file f; supp is the
\* result of the call of __is_rule_disabled_or_suppressed
Dispatched(f, code, supp) ==
    /\ __USER_PREFERENCES_LOADED' = supp.loaded
    /\ __CONFIG' = supp.config
    /\ __SUPPRESSIONS' = supp.supps
    /\ __GLOBAL_SUPPRESSIONS' = supp.g_supps
    /\ is_rule_supp' = supp.val
    /\ IF supp.exc # "none"
       THEN /\ pc' = "raised" /\ exc' = supp.exc
            /\ UNCHANGED << RULES, ro, nr_warnings, lines, exit_msg, ri, hist,
                            exit_code >>
       ELSE IF RuleSkip(ri, f.ext) \/ supp.val
       THEN /\ pc' = "rule" /\ ri' = ri + 1
            /\ UNCHANGED << RULES, ro, nr_warnings, lines, exit_msg, exc, hist,
                            exit_code >>
       ELSE ApplyAndCount(code, ApplyRule(ri, lines.v[i + 1], RULES, supp.config))

\* the call of lines 1283-1285 for the rule code on a line of the file f
Dispatch(f, code) ==
    Dispatched(f, code,
               __is_rule_disabled_or_suppressed(Env, Globals, f.name, i, code))

\* lines 1282-1304: the body of the loop over RULES for the rule at ri
RuleStep ==
    /\ pc = "rule"
    /\ ri <= NrRules
    /\ Dispatch(files[args.files[fi]], __get_all_rules_list[ri])
    /\ UNCHANGED << kwargs, yml, files, args, fi, i, total_nr_warnings,
                    _remove_prefix, ret, _SILENT >>

\* line 1305 and the next turn of the loop of line 1280
EndLine ==
    /\ pc = "rule"
    /\ ri > NrRules
    /\ i' = i + 1
    /\ pc' = "line"
    /\ UNCHANGED << kwargs, yml, files, __CONFIG, __SUPPRESSIONS,
                    __GLOBAL_SUPPRESSIONS, __USER_PREFERENCES_LOADED, args, exc,
                    exit_msg, fi, ri, lines, nr_warnings, total_nr_warnings, ro,
                    is_rule_supp, RULES, _remove_prefix, hist, ret, _SILENT, exit_code >>

\* lines 1306-1310: after the last line of a file
EndFile ==
    /\ pc = "line"
    /\ i >= Len(lines.v)
    /\ RULES' = ResetRules(RULES)
    /\ total_nr_warnings' = total_nr_warnings + nr_warnings
    /\ fi' = fi + 1
    /\ pc' = "file"
    /\ hist' = [hist EXCEPT !.at_end = RULES]
    /\ UNCHANGED << kwargs, yml, files, __CONFIG, __SUPPRESSIONS,
                    __GLOBAL_SUPPRESSIONS, __USER_PREFERENCES_LOADED, args, exc,
                    exit_msg, i, ri, lines, nr_warnings, ro, is_rule_supp,
                    _remove_prefix, ret, _SILENT, exit_code >>

\* lines 1311-1319: after the last file
Finish ==
    /\ pc = "file"
    /\ fi > Len(args.files)
    /\ pc' = "done"
    /\ exit_code' = FinishStatus(total_nr_warnings, _SILENT)
    /\ UNCHANGED << kwargs, yml, files, __CONFIG, __SUPPRESSIONS,
                    __GLOBAL_SUPPRESSIONS, __USER_PREFERENCES_LOADED, args, exc,
                    exit_msg, fi, i, ri, lines, nr_warnings, total_nr_warnings, ro,
                    is_rule_supp, RULES, _remove_prefix, hist, ret, _SILENT >>

Next == ParseArgs \/ OpenFile \/ StartLine \/ RuleStep \/ EndLine \/ EndFile \/ Finish

-----------------------------------------------------------------------------
(* The inputs of the runs checked: lines, files, options.                  *)

\* x := 1;\n
L_clean ==
    <<"x"," ",":","="," ","1",";","\n">>

\* \tx := 1;\n
L_tab ==
    <<"\t","x"," ",":","="," ","1",";","\n">>

\* \n
L_blank ==
    <<"\n">>

\* f := function(a)\n
L_func ==
    <<"f"," ",":","="," ","f","u","n","c","t","i","o","n","(","a",")","\n">>

\*   x := """abc\n
L_mlopen ==
    <<" "," ","x"," ",":","="," ","\"","\"","\"","a","b","c","\n">>

\* x := "abc\\\n
L_cont ==
    <<"x"," ",":","="," ","\"","a","b","c","\\","\n">>

\* x := "abc\n
L_unmatched ==
    <<"x"," ",":","="," ","\"","a","b","c","\n">>

\* gap> x := 1;\n
L_gap ==
    <<"g","a","p",">"," ","x"," ",":","="," ","1",";","\n">>

\* x := 1; # say "hi\n
L_comment_quote ==
    <<"x"," ",":","="," ","1",";"," ","#"," ","s","a","y"," ","\"","h","i",
      "\n">>

\* # gaplint: disable=W001\n
L_dir_global ==
    <<"#"," ","g","a","p","l","i","n","t",":"," ","d","i","s","a","b","l",
      "e","=","W","0","0","1","\n">>

\* x := 1; # gaplint: disable=W012\n
L_dir_line ==
    <<"x"," ",":","="," ","1",";"," ","#"," ","g","a","p","l","i","n","t",
      ":"," ","d","i","s","a","b","l","e","=","W","0","1","2","\n">>


File(name, ext, text) == [name |-> name, ext |-> ext, readable |-> TRUE, text |-> text]

\* a file that exists and that open cannot read
Unreadable(name, ext) == [name |-> name, ext |-> ext, readable |-> FALSE, text |-> <<>>]

FilePool ==
    { File("clean.g", "g", <<L_clean>>),
      File("tab.g", "g", <<L_tab, L_blank>>),
      File("open.g", "g", <<L_func, L_mlopen>>),
      File("cont.g", "g", <<L_cont>>),
      File("fatal.g", "g", <<L_unmatched, L_clean>>),
      File("echo.tst", "tst", <<L_gap>>),
      File("comment.g", "g", <<L_comment_quote>>),
      File("directive.g", "g", <<L_dir_global, L_dir_line>>),
      Unreadable("locked.g", "g") }

MaxFiles == 2

FileLists == UNION { [1..n -> FilePool] : n \in 0..MaxFiles }

RunKwargs ==
    [max_warnings : {NotGiven, Given(0), Given(1), Given(2)},
     columns      : {NotGiven},
     indentation  : {NotGiven, Given(DefaultIndentation + 2)},
     disable      : {[given |-> FALSE, v |-> <<>>], [given |-> TRUE, v |-> <<>>],
                     [given |-> TRUE, v |-> T_M001]},
     silent       : BOOLEAN]

RunYmls ==
    { [file |-> "none", dic |-> EmptyDict],
      [file |-> "dict", dic |-> [k \in {"disable"} |-> YmlList(<<>>)]] }

Init ==
    /\ kwargs \in RunKwargs
    /\ yml \in RunYmls
    /\ files \in FileLists
    /\ ProgramInit

Spec == Init /\ [][Next]_vars

-----------------------------------------------------------------------------
(* Calls of run_gaplint one after the other in one process: the module is  *)
(* imported once, and every call after the first starts with the globals   *)
(* and the rule objects as the call before it left them.                   *)

MaxCalls == 2

CallKwargs ==
    [max_warnings : {NotGiven, Given(1)},
     columns      : {NotGiven},
     indentation  : {NotGiven},
     disable      : {[given |-> FALSE, v |-> <<>>], [given |-> TRUE, v |-> T_M001],
                     [given |-> TRUE, v |-> T_W012]},
     silent       : {TRUE}]

CallFileLists ==
    { <<f>> : f \in { File("clean.g", "g", <<L_clean>>),
                      File("tab.g", "g", <<L_tab, L_blank>>),
                      File("directive.g", "g", <<L_dir_global, L_dir_line>>) } }

InitCalls ==
    /\ kwargs \in CallKwargs
    /\ yml \in RunYmls
    /\ files \in CallFileLists
    /\ ProgramInit

\* run_gaplint (lines 1251-1319) returned and is called again with other
\* keyword arguments and files: its locals are unbound again, the globals
\* of lines 20-29 and the objects of RULES are those of the module
CallAgain ==
    /\ pc = "done"
    /\ hist.calls < MaxCalls
    /\ kwargs' \in CallKwargs
    /\ files' \in CallFileLists
    /\ pc' = "start"
    /\ lines' = [bound |-> FALSE, v |-> <<>>]
    /\ args' = NoArgs
    /\ exc' = "none"
    /\ exit_msg' = NoExit
    /\ fi' = 0
    /\ i' = 0
    /\ ri' = 0
    /\ nr_warnings' = 0
    /\ total_nr_warnings' = 0
    /\ ro' = NoRuleOutput
    /\ is_rule_supp' = FALSE
    /\ exit_code' = NotExited
    /\ hist' = [HistInit EXCEPT !.calls = hist.calls + 1]
    /\ UNCHANGED << yml, __CONFIG, __SUPPRESSIONS, __GLOBAL_SUPPRESSIONS,
                    __USER_PREFERENCES_LOADED, RULES, _remove_prefix, ret, _SILENT >>

NextCalls ==
    ParseArgs \/ OpenFile \/ StartLine \/ RuleStep \/ EndLine \/ EndFile \/ Finish
        \/ CallAgain

SpecCalls == InitCalls /\ [][NextCalls]_vars

-----------------------------------------------------------------------------
(* The builders of the suppression tables on their own: __get_lines_suppdic *)
(* and __get_global_suppdic applied to the lines of one file.              *)

\* # gaplint: disable(nextline)=W012\n
L_dir_next ==
    <<"#"," ","g","a","p","l","i","n","t",":"," ","d","i","s","a","b","l",
      "e","(","n","e","x","t","l","i","n","e",")","=","W","0","1","2","\n">>

\* # gaplint: disable=all\n
L_dir_all ==
    <<"#"," ","g","a","p","l","i","n","t",":"," ","d","i","s","a","b","l",
      "e","=","a","l","l","\n">>

\* # note\n
L_comment ==
    <<"#"," ","n","o","t","e","\n">>

TableLines ==
    { L_clean, L_blank, L_comment, L_dir_global, L_dir_line, L_dir_next, L_dir_all }

MaxLines == 3

TableFiles ==
    { File("table.g", "g", text) :
        text \in UNION { [1..n -> TableLines] : n \in 0..MaxLines } }

InitTables ==
    /\ kwargs \in {[max_warnings |-> NotGiven, columns |-> NotGiven,
                     indentation |-> NotGiven,
                     disable |-> [given |-> FALSE, v |-> <<>>]]}
    /\ yml \in {[file |-> "none", dic |-> EmptyDict]}
    /\ files \in { <<f>> : f \in TableFiles }
    /\ ProgramInit

\* the call of line 1175
GetLinesSuppdic ==
    /\ pc = "start"
    /\ ret' = __get_lines_suppdic(files[1].text)
    /\ pc' = "lines_suppdic"
    /\ UNCHANGED << kwargs, yml, files, __CONFIG, __SUPPRESSIONS,
                    __GLOBAL_SUPPRESSIONS, __USER_PREFERENCES_LOADED, args, exc,
                    exit_msg, fi, i, ri, lines, nr_warnings, total_nr_warnings, ro,
                    is_rule_supp, RULES, _remove_prefix, hist, _SILENT,
                    exit_code >>

\* the call of line 1177
GetGlobalSuppdic ==
    /\ pc = "start"
    /\ ret' = __get_global_suppdic(files[1].text)
    /\ pc' = "global_suppdic"
    /\ UNCHANGED << kwargs, yml, files, __CONFIG, __SUPPRESSIONS,
                    __GLOBAL_SUPPRESSIONS, __USER_PREFERENCES_LOADED, args, exc,
                    exit_msg, fi, i, ri, lines, nr_warnings, total_nr_warnings, ro,
                    is_rule_supp, RULES, _remove_prefix, hist, _SILENT,
                    exit_code >>

NextTables == GetLinesSuppdic \/ GetGlobalSuppdic

SpecTables == InitTables /\ [][NextTables]_vars

-----------------------------------------------------------------------------
(* The rules on their own: one rule object, or the rules in the order of   *)
(* RULES, called on the successive lines of a text, and _is_escaped called *)
(* on one line.  pc names what is called; the call stops at an exception   *)
(* or at a fatal output.                                                   *)

\* the strings of at most n characters of the set alphabet
Strings(alphabet, n) == UNION { [1..k -> alphabet] : k \in 0..n }

\* the lines readlines returns for the bodies: every line ends with a
\* newline, except that the last line of a file may lack it
AsLines(bodies) ==
    { b \o <<"\n">> : b \in bodies } \cup { b \in bodies : b # <<>> }

\* the texts of one line of the set pool
OneLine(pool) == { <<l>> : l \in pool }

\* the texts of at most n lines of the set pool
Texts(pool, n) == UNION { [1..k -> pool] : k \in 1..n }

MaxEscapeLen == 4
EscapeLines == AsLines(Strings({"\\", "\"", "a"}, MaxEscapeLen))

MaxQuoteLen == 4
QuoteLines == AsLines(Strings({"\"", "\\", "a", "'"}, MaxQuoteLen))

\* "a\ and \'a\ before a newline: lines that leave a string, or a
\* character, open at their end
L_open_string == <<"\"", "a", "\\", "\n">>
L_open_char == <<"\\", "'", "a", "\\", "\n">>

\* the lines that close a continued string after n characters, for n below,
\* at and above the length of the continuation token, and go on with a
\* remainder of at most MaxRemainderLen characters
MaxRemainderLen == 3
ClosePositions ==
    {0, 2, Len(_cont_replacement(REMOVED_STRING)) - 1,
     Len(_cont_replacement(REMOVED_STRING)),
     Len(_cont_replacement(REMOVED_STRING)) + 2}
Remainders == { b \o <<"\n">> : b \in Strings({"\"", "a", " "}, MaxRemainderLen) }
ClosingLines ==
    { [k \in 1..n |-> "a"] \o <<"\"">> \o r : n \in ClosePositions, r \in Remainders }

\* the lines made of at most MaxTripleSegments triple quotes and letters,
\* and the texts of one or two of them, or of an opener, a line and one of
\* them
RECURSIVE Glue(_)
Glue(segs) == IF segs = <<>> THEN <<>> ELSE Head(segs) \o Glue(Tail(segs))

MaxTripleSegments == 4
TripleLines ==
    AsLines({<<>>} \cup { Glue(segs) : segs \in Texts({TripleQuote, <<"a">>},
                                                      MaxTripleSegments) })
TripleTexts ==
    OneLine(TripleLines)
        \cup { <<k, l>> : k \in TripleLines, l \in TripleLines }
        \cup { <<L_mlopen, L_clean, l>> : l \in TripleLines }

\* the lines made of at most MaxHashSegments triple quotes, comment signs
\* and letters, and the texts that open a multi-line string and go on with
\* one of them
MaxHashSegments == 3
HashLines ==
    AsLines({ Glue(segs) : segs \in Texts({TripleQuote, <<"#">>, <<"a">>},
                                          MaxHashSegments) })
HashTexts ==
    { <<L_mlopen, l>> : l \in HashLines }
        \cup { <<L_mlopen, l, L_clean>> : l \in HashLines }

\* the lines of a transcript: echoed input, its continuation, output, and
\* the prefixes alone or after a space; the texts of at most MaxPrefixLines
\* of them
PrefixLines ==
    { <<"g","a","p",">"," ","a","\n">>,
      <<"g","a","p",">","\n">>,
      <<">"," ","a","\n">>,
      <<">","a">>,
      <<"a","\n">>,
      <<" ",">"," ","a","\n">>,
      <<"a">> }
MaxPrefixLines == 3
PrefixTexts == Texts(PrefixLines, MaxPrefixLines)

\* statements that open and close blocks, with and without indentation, a
\* blank line, and the texts of at most MaxBlockLines of them
Indented(n, body) == [k \in 1..n |-> " "] \o body \o <<"\n">>
BlockBodies ==
    { <<"i","f"," ","a"," ","t","h","e","n">>,
      <<"e","l","s","e">>,
      <<"f","i",";">>,
      <<"o","d",";"," ","f","i",";">>,
      <<"f","i",";"," ","f","i",";">>,
      <<"e","n","d",";"," ","o","d",";">>,
      <<"x",";">> }
BlockLines ==
    { Indented(n, b) : n \in {0, DefaultIndentation}, b \in BlockBodies }
        \cup {L_blank}
MaxBlockLines == 3
BlockTexts == Texts(BlockLines, MaxBlockLines)

MaxCommentLen == 4
CommentLines == AsLines(Strings({"#", "\"", "'", "\\", "a"}, MaxCommentLen))

\* a value of columns a configuration file may set
NarrowColumns == 4

\* the lines of cols - 1, cols and cols + 1 characters
LinesAround(cols) ==
    AsLines({ [k \in 1..n |-> "a"] : n \in (cols - 1)..(cols + 1) })

\* two spaces and a newline
L_spaces == <<" ", " ", "\n">>

MaxBlankRun == 4
BlankRunTexts == Texts({L_blank, L_spaces, L_clean}, MaxBlankRun)

\* f := function(x)\n
L_function_x ==
    <<"f"," ",":","="," ","f","u","n","c","t","i","o","n","(","x",")","\n">>

\*   local a, b;\n
L_local_a_b ==
    <<" "," ","l","o","c","a","l"," ","a",","," ","b",";","\n">>

\*   a := x;\n
L_use_a ==
    <<" "," ","a"," ",":","="," ","x",";","\n">>

\* end;\n
L_end ==
    <<"e","n","d",";","\n">>

\*   return b; end;\n
L_return_b_end ==
    <<" "," ","r","e","t","u","r","n"," ","b",";"," ","e","n","d",";","\n">>

\*   local a,\n
L_local_a_comma ==
    <<" "," ","l","o","c","a","l"," ","a",",","\n">>

\*     b,\n
L_b_comma ==
    <<" "," "," "," ","b",",","\n">>

\*     c;\n
L_c_semicolon ==
    <<" "," "," "," ","c",";","\n">>

\* the body lines of a function whose declaration of locals spans lines
MaxDeclarationLines == 3
DeclarationTexts ==
    { <<L_function_x>> \o t :
        t \in Texts({L_local_a_comma, L_b_comma, L_c_semicolon, L_end},
                    MaxDeclarationLines) }

MaxBodyLines == 4
FunctionTexts ==
    Texts({L_function_x, L_local_a_b, L_use_a, L_end, L_return_b_end}, MaxBodyLines)

\* the pieces of the lines given to the rules in order: a statement, a
\* string and a comment that hold block keywords, the character '"', a
\* comment that holds a quote, and a block keyword of the code
Segments ==
    { <<"x",";">>,
      <<"\"","i","f","\"">>,
      <<"'","\"","'">>,
      <<"#"," ","d","o">>,
      <<"#"," ","\"","f","i">>,
      <<"t","h","e","n">> }

RECURSIVE JoinSegments(_)
JoinSegments(segs) ==
    IF segs = <<>> THEN <<"\n">>
    ELSE Head(segs) \o (IF Len(segs) > 1 THEN <<" ">> ELSE <<>>)
             \o JoinSegments(Tail(segs))

MaxSegments == 3
SegmentLines == { JoinSegments(segs) : segs \in Texts(Segments, MaxSegments) }

\* what is called, and the texts and the configurations it is called with
RuleTests ==
    {"_is_escaped", "_remove_prefix", "W001", "W002", "M001", "M002", "M003", "M004",
     "W004", "W028", "RULES"}

TestTexts(test) ==
    CASE test = "_is_escaped" -> OneLine(EscapeLines)
      [] test = "_remove_prefix" -> PrefixTexts
      [] test = "W001" -> OneLine(LinesAround(NarrowColumns))
                              \cup OneLine(LinesAround(DefaultColumns))
      [] test = "W002" -> BlankRunTexts
      [] test = "M001" -> OneLine(CommentLines)
      [] test = "M002" -> TripleTexts
      [] test = "M003" -> OneLine(QuoteLines)
                              \cup { <<L_open_string, l>> : l \in QuoteLines }
                              \cup { <<L_open_string, l>> : l \in ClosingLines }
      [] test = "M004" -> OneLine(QuoteLines)
                              \cup { <<L_open_char, l>> : l \in QuoteLines }
      [] test = "W004" -> BlockTexts
      [] test = "W028" -> FunctionTexts \cup DeclarationTexts
      [] test = "RULES" -> OneLine(SegmentLines) \cup HashTexts

TestConfigs(test) ==
    IF test = "W001"
    THEN {EmptyDict, DictSet(EmptyDict, "columns", NarrowColumns)}
    ELSE {EmptyDict}

\* the files that hold the text: a name for each extension when the test
\* reads the extension of the file name (line 1281), no file otherwise
TestFiles(test, text) ==
    IF test = "_remove_prefix"
    THEN { [n \in {f.name} |-> f] :
             f \in { File("echo.tst", "tst", text), File("doc.xml", "xml", text),
                     File("code.g", "g", text) } }
    ELSE { <<>> }

NoKwargs ==
    [max_warnings |-> NotGiven, columns |-> NotGiven, indentation |-> NotGiven,
     disable |-> [given |-> FALSE, v |-> <<>>]]

InitRules ==
    /\ kwargs = NoKwargs
    /\ yml = [file |-> "none", dic |-> EmptyDict]
    /\ pc \in RuleTests
    /\ lines \in { [bound |-> TRUE, v |-> t] : t \in TestTexts(pc) }
    /\ files \in TestFiles(pc, lines.v)
    /\ __CONFIG \in TestConfigs(pc)
    /\ ModuleImported

\* the position of the rule code in RULES
RuleIndex(code) == CHOOSE r \in 1..NrRules : __get_all_rules_list[r] = code

\* the positions _is_escaped accepts in line (line 318)
EscapePositions(line) ==
    { pos \in (0 - Len(line))..Len(line) : _is_escaped_assert(line, pos) }

\* _is_escaped(line, pos) called on the line of the text
CallIsEscaped ==
    /\ pc = "_is_escaped"
    /\ i = 0
    /\ \E pos \in EscapePositions(lines.v[1]) :
          ret' = [exc |-> "none", dic |-> {}, pos |-> pos,
                  val |-> _is_escaped(lines.v[1], pos)]
    /\ i' = 1
    /\ UNCHANGED << kwargs, yml, files, __CONFIG, __SUPPRESSIONS,
                    __GLOBAL_SUPPRESSIONS, __USER_PREFERENCES_LOADED, args, pc,
                    exc, exit_msg, fi, ri, lines, nr_warnings, total_nr_warnings,
                    ro, is_rule_supp, RULES, _remove_prefix, hist, _SILENT,
                    exit_code >>

\* the state after a call of a rule gave got
Called(got) ==
    /\ RULES' = got.rules
    /\ exc' = got.exc
    /\ ro' = IF got.exc = "none" THEN got.ro ELSE ro
    /\ i' = i + 1

\* rule(lines[i]) for the rule object pc names, on the next line
CallRule ==
    /\ pc \in AllCodes
    /\ i < Len(lines.v)
    /\ exc = "none" /\ ~ ro.abort
    /\ Called(ApplyRule(RuleIndex(pc), lines.v[i + 1], RULES, __CONFIG))
    /\ UNCHANGED << kwargs, yml, files, __CONFIG, __SUPPRESSIONS,
                    __GLOBAL_SUPPRESSIONS, __USER_PREFERENCES_LOADED, args, pc,
                    exit_msg, fi, ri, lines, nr_warnings, total_nr_warnings,
                    is_rule_supp, _remove_prefix, hist, ret, _SILENT, exit_code >>

\* fname.split('.')[-1] (line 1281) for the only file of the test
ExtOfFile(fs) == fs[CHOOSE n \in DOMAIN fs : TRUE].ext

\* _remove_prefix(lines[i], ext) (line 1281) on the next line of the text
Stripped(got) ==
    /\ ret' = [exc |-> "none", dic |-> {}, line |-> got.line]
    /\ _remove_prefix' = got.consuming
    /\ i' = i + 1

CallRemovePrefix ==
    /\ pc = "_remove_prefix"
    /\ i < Len(lines.v)
    /\ Stripped(RemovePrefix(lines.v[i + 1], ExtOfFile(files), _remove_prefix))
    /\ UNCHANGED << kwargs, yml, files, __CONFIG, __SUPPRESSIONS,
                    __GLOBAL_SUPPRESSIONS, __USER_PREFERENCES_LOADED, args, pc,
                    exc, exit_msg, fi, ri, lines, nr_warnings, total_nr_warnings,
                    ro, is_rule_supp, RULES, hist, _SILENT, exit_code >>

\* the rule called again on the line it returned
Recalled(got) == ret' = [exc |-> got.exc, dic |-> {}, ro |-> got.ro]

CallRuleOnOutput ==
    /\ pc = "M001"
    /\ i = Len(lines.v)
    /\ exc = "none" /\ ~ ro.abort
    /\ ret = NoRet
    /\ Recalled(ApplyRule(RuleIndex(pc), ro.line, RULES, __CONFIG))
    /\ UNCHANGED << kwargs, yml, files, __CONFIG, __SUPPRESSIONS,
                    __GLOBAL_SUPPRESSIONS, __USER_PREFERENCES_LOADED, args, pc,
                    exc, exit_msg, fi, i, ri, lines, nr_warnings,
                    total_nr_warnings, ro, is_rule_supp, RULES, _remove_prefix,
                    hist, _SILENT, exit_code >>

\* the loop of lines 1282-1302 over the rules from position r on, when no
\* rule is skipped, disabled or suppressed: each rule is given the line
\* the rule before it returned
RECURSIVE ApplyRulesFrom(_, _, _, _)
ApplyRulesFrom(r, line, rs, config) ==
    IF r > NrRules THEN Applied("none", RuleOutput(line, NoMsg, FALSE), rs)
    ELSE IF ApplyRule(r, line, rs, config).exc # "none"
            \/ ApplyRule(r, line, rs, config).ro.abort
    THEN ApplyRule(r, line, rs, config)
    ELSE ApplyRulesFrom(r + 1, ApplyRule(r, line, rs, config).ro.line,
                        ApplyRule(r, line, rs, config).rules, config)

\* every rule of RULES, in order, on the next line
CallRules ==
    /\ pc = "RULES"
    /\ i < Len(lines.v)
    /\ exc = "none" /\ ~ ro.abort
    /\ Called(ApplyRulesFrom(1, lines.v[i + 1], RULES, __CONFIG))
    /\ UNCHANGED << kwargs, yml, files, __CONFIG, __SUPPRESSIONS,
                    __GLOBAL_SUPPRESSIONS, __USER_PREFERENCES_LOADED, args, pc,
                    exit_msg, fi, ri, lines, nr_warnings, total_nr_warnings,
                    is_rule_supp, _remove_prefix, hist, ret, _SILENT, exit_code >>

NextRules ==
    CallIsEscaped \/ CallRemovePrefix \/ CallRule \/ CallRuleOnOutput \/ CallRules

SpecRules == InitRules /\ [][NextRules]_vars

-----------------------------------------------------------------------------
(* The properties checked.                                                 *)

\* C1: once a rule returns a fatal output the run is over: that rule
\* application is the last one of the run (no later rule, line or file),
\* the run has exited through _exit_abort, and the message gives the
\* number of outputs with a message over all files so far, the fatal
\* output's own message included; nothing happens after the exit.
C1_FatalEndsRun ==
    /\ [](ro.abort =>
            /\ pc = "aborted"
            /\ HasMsg(ro)
            /\ exit_msg = ExitMsg("warnings", hist.msgs)
            /\ hist.msgs = total_nr_warnings + nr_warnings
            /\ hist.applied[Len(hist.applied)] =
                   [file |-> fi, line |-> i, code |-> __get_all_rules_list[ri]])
    /\ [][pc = "aborted" => UNCHANGED vars]_vars

\* a fatal output in the second file, after a first file with one warning
C1_FatalInSecondFile ==
    /\ pc = "aborted"
    /\ ro.abort
    /\ fi = 2
    /\ total_nr_warnings = 1
    /\ exit_msg = ExitMsg("warnings", 2)
    /\ i < Len(lines.v) - 1

\* C2: the run exits with 'too many warnings' only when the number of
\* warnings over all files exceeds max_warnings, and it does not go on
\* once that number exceeds max_warnings.
C2_AbortOnlyAboveMax ==
    /\ exit_msg.kind = "too many warnings" => hist.msgs > args.max_warnings
    /\ pc \in {"rule", "line", "file", "done"} => hist.msgs <= args.max_warnings

\* the codes named by a same-line directive of the line
SameLineCodes(line) ==
    IF SameLineDirectiveEnd(line) = -1 THEN {}
    ELSE Elems(__unpack_tuple_list(FindallRules(line, SameLineDirectiveEnd(line))))

\* the codes named by a next-line directive of the line
NextLineCodes(line) ==
    IF NextLineDirectiveEnd(line) = -1 THEN {}
    ELSE Elems(__unpack_tuple_list(FindallRules(line, NextLineDirectiveEnd(line))))

\* the codes suppressed on the line of index k (0-based) of a file: those
\* of a same-line directive of line k and of a next-line directive of
\* line k - 1
ExpectedLineCodes(lns, k) ==
    (IF k < Len(lns) THEN SameLineCodes(lns[k + 1]) ELSE {})
    \cup (IF k >= 1 THEN NextLineCodes(lns[k]) ELSE {})

\* the codes of the directives in the leading run of blank and comment
\* lines of a file
ExpectedGlobalCodes(lns) ==
    UNION { SameLineCodes(lns[k]) :
              k \in { n \in 1..Len(lns) : \A j \in 1..n : IsBlankOrComment(lns[j]) } }

\* the file has a line that is neither blank nor a comment
HasStatement(lns) == \E k \in 1..Len(lns) : ~ IsBlankOrComment(lns[k])

\* C3: whenever run_gaplint asks whether a rule is to be skipped on a line
\* (the configuration resolves, every file can be read and holds a
\* statement), the answer is given, and it is yes exactly when the code is
\* in the disable list, or named by a global directive of the file, or
\* named by a directive for that line.
C3_SkippedIffSuppressed ==
    ( /\ pc = "rule"
      /\ ri <= NrRules
      /\ __set_user_config_dic(args, yml, __CONFIG).exc = "none"
      /\ \A k \in 1..Len(files) : files[k].readable /\ HasStatement(files[k].text) )
    => LET f == files[args.files[fi]]
           code == __get_all_rules_list[ri]
           supp == __is_rule_disabled_or_suppressed(Env, Globals, f.name, i, code)
       IN  /\ supp.exc = "none"
           /\ supp.val <=> \/ IsDisabled(code, supp.config)
                           \/ code \in ExpectedGlobalCodes(f.text)
                           \/ code \in ExpectedLineCodes(f.text, i)

\* C4: __get_lines_suppdic returns normally, and its table holds code c
\* for line index k exactly when line k carries a same-line directive
\* naming c or line k - 1 carries a next-line directive naming c.
C4_LinesTableBuilt ==
    pc = "lines_suppdic" =>
        /\ ret.exc = "none"
        /\ \A k \in 0..Len(files[1].text) : \A code \in AllCodes :
               (k \in DOMAIN ret.dic /\ code \in ret.dic[k])
                   <=> code \in ExpectedLineCodes(files[1].text, k)

\* C5: __get_global_suppdic returns normally, and its table holds exactly
\* the codes named by the directives in the leading run of blank and
\* comment lines of the file (every code for 'all').
C5_GlobalTableBuilt ==
    pc = "global_suppdic" =>
        /\ ret.exc = "none"
        /\ ret.dic = ExpectedGlobalCodes(files[1].text)

\* the codes of the comment remover, the multi-line-string stripper and
\* the two quote strippers
PreprocessorCodes == {"M001", "M002", "M003", "M004"}

\* C6: when the loop over RULES has ended for a line, the four rules of
\* the preprocessor have been applied to that line, whatever is disabled
\* or suppressed.
C6_PreprocessorAlwaysApplied ==
    (pc = "rule" /\ ri > NrRules) =>
        \A code \in PreprocessorCodes :
            \E k \in 1..Len(hist.applied) :
                hist.applied[k] = [file |-> fi, line |-> i, code |-> code]

\* C7: when run_gaplint is at the first line of a file, the expected
\* indentation is 0, UnusedLVarsFunc has no open frame and consumes neither
\* arguments nor locals, ReplaceMultilineStrings is not consuming and the
\* previous-line-empty flag of ConsecutiveEmptyLines is false.
C7_ResetBetweenFiles ==
    (pc = "line" /\ i = 0) =>
        /\ RULES.expected = 0
        /\ RULES.depth = -1
        /\ RULES.args = <<>>
        /\ RULES.lvars = <<>>
        /\ ~ RULES.consuming_args
        /\ ~ RULES.consuming_lvars
        /\ ~ RULES.ml_consuming
        /\ ~ RULES.prev_line_empty

\* the first line of a second file, the first one having ended inside a
\* function and inside a multi-line string
C7_AfterOpenFunction ==
    /\ pc = "line"
    /\ i = 0
    /\ fi = 2
    /\ hist.at_end.expected > 0
    /\ hist.at_end.depth >= 0
    /\ hist.at_end.ml_consuming
    /\ Len(lines.v) > 0

\* C8: when run_gaplint is at the first line of a file after the first,
\* neither ReplaceQuotes rule is consuming and RemovePrefix is not inside
\* an echoed block.
C8_TransformsResetBetweenFiles ==
    (pc = "line" /\ i = 0 /\ fi > 1) =>
        /\ ~ RULES.dq_consuming
        /\ ~ RULES.sq_consuming
        /\ ~ _remove_prefix

\* the set of rule codes of a list of codes
CodeSet(list) == Elems(list) \ {"False"}

\* the codes a disable option of the command line names
OverrideCodes(v) ==
    CodeSet(__make_code_list([k \in 1..Len(Split(v, ",")) |-> Strip(Split(v, ",")[k])]))

\* the value of key in the layer of the configuration file: the entries
\* __get_config_yml_dic keeps
FileLayer == __get_config_yml_dic(yml).dic

FileValue(key) ==
    IF key = "disable"
    THEN (IF FileLayer[key].t = "None" THEN {}
          ELSE CodeSet(__make_code_list(FileLayer[key].l)))
    ELSE FileLayer[key].n

\* the value of key in the layers below the configuration file
OverrideOrDefault(key) ==
    IF key = "disable"
    THEN (IF kwargs[key].given THEN OverrideCodes(kwargs[key].v)
          ELSE CodeSet(__DEFAULT_CONFIG[key]))
    ELSE (IF kwargs[key].given THEN kwargs[key].v ELSE __DEFAULT_CONFIG[key])

\* the value resolved for key
Resolved(key) ==
    IF key = "disable" THEN CodeSet(_get_config_val(key)) ELSE _get_config_val(key)

\* C9: after a resolution that raised nothing, every key has the value of
\* the override when one is given, else the value of the configuration
\* file when it has the key, else the built-in default.
C9_OverrideWins ==
    (pc = "resolved" /\ exc = "none") =>
        \A key \in ConfigKeys :
            Resolved(key) = IF kwargs[key].given THEN OverrideOrDefault(key)
                            ELSE IF key \in DOMAIN FileLayer THEN FileValue(key)
                            ELSE OverrideOrDefault(key)

\* C10: when no configuration file is found, or the file found holds only
\* known keys and lacks some of them, the resolution raises nothing and
\* every key the file lacks has the value of the override or, without
\* one, the built-in default.
C10_OmittedKeyFallsBack ==
    ( /\ pc = "resolved"
      /\ \/ yml.file = "none"
         \/ /\ yml.file = "dict"
            /\ DOMAIN yml.dic \subseteq ConfigKeys
            /\ DOMAIN yml.dic # ConfigKeys )
    => /\ exc = "none"
       /\ \A key \in ConfigKeys \ DOMAIN FileLayer :
              Resolved(key) = OverrideOrDefault(key)


\* C11: a file that cannot be opened or read is skipped: the call does not
\* fail on it, and no rule is applied under the name of that file.
C11_UnreadableFileSkipped ==
    /\ exc # "UnboundLocalError"
    /\ \A k \in 1..Len(hist.applied) :
          files[args.files[hist.applied[k].file]].readable

\* C12: when the program ends, its exit status is 0 exactly when no warning
\* was counted and no abort was triggered, silent mode included.
C12_ExitCodeReportsWarnings ==
    pc \in {"done", "aborted"} =>
        (exit_code = 0 <=> (hist.msgs = 0 /\ pc # "aborted"))


\* the 0-based position pos of line counted from its start
FromStart(line, pos) == IF pos < 0 THEN Len(line) + pos ELSE pos

\* C13: _is_escaped(line, pos) is true exactly when an odd number of
\* consecutive backslashes ends just before the character at pos; the
\* character at position 0 is never escaped.  The lines are lines of a
\* file: a newline only ends them.
C13_EscapedIffOddBackslashes ==
    (pc = "_is_escaped" /\ i = 1) =>
        (ret.val <=>
            BackslashesBefore(lines.v[1], FromStart(lines.v[1], ret.pos)) % 2 = 1)

\* a double quote after three backslashes is reported escaped
C13_QuoteAfterThreeBackslashes ==
    /\ pc = "_is_escaped" /\ i = 1
    /\ ret.pos = 3
    /\ lines.v[1][ret.pos + 1] = "\""
    /\ BackslashesBefore(lines.v[1], ret.pos) = 3
    /\ ret.val

\* the 0-based positions of the character c in line, in increasing order
PositionsOf(line, c) == { p \in 0..(Len(line) - 1) : line[p + 1] = c }
FirstOf(S) == CHOOSE p \in S : \A q \in S : p <= q
LastOf(S) == CHOOSE p \in S : \A q \in S : q <= p

\* line holds one double-quoted string and no other quote character
OneStringOnly(line) ==
    /\ Cardinality(PositionsOf(line, "\"")) = 2
    /\ PositionsOf(line, "'") = {}
    /\ \A p \in PositionsOf(line, "\"") : BackslashesBefore(line, p) % 2 = 0

\* C14: on a line with exactly one double-quoted string and no other quote
\* character, the double-quote stripper that is not consuming returns,
\* without a message, the line with the string, quotes included, replaced
\* by one replacement token and the rest unchanged, and is not consuming
\* afterwards.
C14_StringBecomesOneToken ==
    (pc = "M003" /\ i = 1 /\ OneStringOnly(lines.v[1])) =>
        /\ exc = "none"
        /\ ~ HasMsg(ro) /\ ~ ro.abort
        /\ ro.line = Slice(lines.v[1], 0, FirstOf(PositionsOf(lines.v[1], "\"")))
                        \o REMOVED_STRING
                        \o From(lines.v[1], LastOf(PositionsOf(lines.v[1], "\"")) + 1)
        /\ ~ RULES.dq_consuming

\* a string that holds an escaped backslash: its closing quote follows two
\* backslashes
C14_StringOfBackslashes ==
    /\ pc = "M003" /\ i = 1
    /\ OneStringOnly(lines.v[1])
    /\ lines.v[1] = <<"\"", "\\", "\\", "\"", "\n">>
    /\ ro.line = REMOVED_STRING \o <<"\n">>


\* line ends with a newline
HasTerminator(line) == line # <<>> /\ line[Len(line)] = "\n"

\* C15: RemoveComments applied to a line it returned returns that line
\* unchanged, and RemoveComments keeps the line terminator of its input.
C15_CommentRemovalIdempotent ==
    (pc = "M001" /\ i = 1) =>
        /\ exc = "none"
        /\ HasTerminator(ro.line) <=> HasTerminator(lines.v[1])
        /\ ret # NoRet => (ret.exc = "none" /\ ret.ro = ro)

\* a line whose comment was removed, given to RemoveComments again
C15_StrippedLineGivenAgain ==
    /\ pc = "M001" /\ i = 1
    /\ lines.v[1] = <<"a", "#", "\"", "#", "\n">>
    /\ ro.line = <<"a", "\n">>
    /\ ret # NoRet
    /\ ret.ro.line = <<"a", "\n">>

\* line without its comment and without the content of its strings, read
\* as GAP reads it from the 1-based position p on: a string runs from a
\* double quote to the next double quote that no backslash escapes, a
\* character is 'c' or '\c', a comment runs from a # of the code to the
\* end of the line.
RECURSIVE BareFrom(_, _, _)
BareFrom(line, p, in_string) ==
    IF p > Len(line) THEN <<>>
    ELSE IF in_string
    THEN IF line[p] = "\\" THEN BareFrom(line, p + 2, TRUE)
         ELSE IF line[p] = "\"" THEN <<"\"">> \o BareFrom(line, p + 1, FALSE)
         ELSE BareFrom(line, p + 1, TRUE)
    ELSE IF line[p] = "#" THEN (IF HasTerminator(line) THEN <<"\n">> ELSE <<>>)
    ELSE IF line[p] = "\"" THEN <<"\"">> \o BareFrom(line, p + 1, TRUE)
    ELSE IF line[p] = "'" /\ p + 2 <= Len(line) /\ line[p + 1] # "\\"
               /\ line[p + 2] = "'"
    THEN SubSeq(line, p, p + 2) \o BareFrom(line, p + 3, FALSE)
    ELSE IF line[p] = "'" /\ p + 3 <= Len(line) /\ line[p + 1] = "\\"
               /\ line[p + 3] = "'"
    THEN SubSeq(line, p, p + 3) \o BareFrom(line, p + 4, FALSE)
    ELSE <<line[p]>> \o BareFrom(line, p + 1, FALSE)

Bare(line) == BareFrom(line, 1, FALSE)

\* C16: through the rules in their order, the expected indentation after a
\* line equals the one after the same line without its comment and without
\* the content of its strings: a block keyword inside a comment or inside
\* a string closed on the line changes nothing.
C16_KeywordsInCommentsIgnored ==
    (pc = "RULES" /\ i = 1 /\ exc = "none") =>
        RULES.expected =
            ApplyRulesFrom(1, Bare(lines.v[1]), RulesConstructed, __CONFIG).rules.expected


\* the names on a line
Names(line) == Elems(FindallWords(line, 0, Len(line)))

\* the numbers of lines a..b of text that open, and that close, a function
Opens(text, a, b) == Cardinality({ k \in a..b : _is_function_declared(text[k]) })
Closes(text, a, b) == Cardinality({ k \in a..b : _is_end_declared(text[k]) })

\* the line that opens the function that line c of text closes
FrameStart(text, c) ==
    LastOf({ f \in 1..(c - 1) :
               /\ _is_function_declared(text[f])
               /\ Opens(text, f + 1, c - 1) = Closes(text, f + 1, c - 1) })

\* the declarations of locals of the function opened at line f and closed
\* at line c, those of the functions inside it left out
LocalLines(text, f, c) ==
    { k \in (f + 1)..(c - 1) :
        /\ _is_local_declared(text[k])
        /\ Opens(text, f + 1, k) = Closes(text, f + 1, k) }

\* the locals of that function that no line after their declaration, up to
\* and including line c, refers to
UnusedLocals(text, f, c) ==
    { v \in UNION { Names(text[k]) \ {K_local} : k \in LocalLines(text, f, c) } :
        \A d \in LocalLines(text, f, c) : \A k \in (d + 1)..c :
            (v \in Names(text[d]) /\ ~ _is_local_declared(text[k]))
                => v \notin Names(text[k]) }

\* C17: when a line closes a function, UnusedLVarsFunc warns exactly when
\* some declared local of that function was never referenced, and the
\* warning lists exactly those locals; arguments are never listed.
C17_UnusedLocalsReported ==
    (pc = "W028" /\ i >= 1 /\ exc = "none" /\ ~ ro.abort
         /\ _is_end_declared(lines.v[i])) =>
        /\ HasMsg(ro) <=> UnusedLocals(lines.v, FrameStart(lines.v, i), i) # {}
        /\ HasMsg(ro) =>
              /\ ro.msg.kind = "unused local variables"
              /\ ro.msg.data = UnusedLocals(lines.v, FrameStart(lines.v, i), i)


\* C18 as stated: in a run of consecutive blank lines the
\* consecutive-empty-lines rule flags the first blank line only.
C18_OnlyFirstBlankFlagged ==
    (pc = "W002" /\ i >= 1) =>
        (HasMsg(ro) <=>
            (IsBlank(lines.v[i]) /\ (i = 1 \/ ~ IsBlank(lines.v[i - 1]))))

\* C18, amended: in a run of consecutive blank lines the rule flags every
\* blank line except the first; the first blank line of a run and the
\* lines that are not blank are not flagged, and a line that is not blank
\* ends the run.
C18_BlankAfterBlankFlagged ==
    (pc = "W002" /\ i >= 1) =>
        /\ exc = "none" /\ ~ ro.abort
        /\ HasMsg(ro) <=> (IsBlank(lines.v[i]) /\ i >= 2 /\ IsBlank(lines.v[i - 1]))
        /\ RULES.prev_line_empty <=> IsBlank(lines.v[i])

\* the third blank line of a run that follows a statement
C18_ThirdBlankOfARun ==
    /\ pc = "W002" /\ i = 4
    /\ ~ IsBlank(lines.v[1])
    /\ IsBlank(lines.v[2]) /\ IsBlank(lines.v[3]) /\ IsBlank(lines.v[4])
    /\ HasMsg(ro)


\* the length of a line in characters, its line terminator not counted
LengthWithoutTerminator(line) ==
    IF HasTerminator(line) THEN Len(line) - 1 ELSE Len(line)

\* C19: LineTooLong warns exactly when the length of the line, the line
\* terminator not counted, exceeds the configured columns; a line of exactly
\* columns characters followed by a newline gets no warning.
C19_WarnsIffLongerThanColumns ==
    (pc = "W001" /\ i >= 1 /\ exc = "none") =>
        (HasMsg(ro) <=>
            LengthWithoutTerminator(lines.v[i]) > get_config_val_in(__CONFIG, "columns"))


\* the constructor arguments and the _consuming of the quote stripper that
\* the rule code names
StripperOf(code) == IF code = "M003" THEN DoubleQuote ELSE EscapedQuote
ConsumingOf(code, rs) == IF code = "M003" THEN rs.dq_consuming ELSE rs.sq_consuming

\* True when the last character of the line follows an odd number of
\* backslashes
EndsInEscape(line) == BackslashesBefore(line, Len(line) - 1) % 2 = 1

\* the line terminator of the line, if it has one
TerminatorOf(line) == IF HasTerminator(line) THEN <<"\n">> ELSE <<>>

\* what C20 says of the call stripper(line) that returned out and left the
\* stripper with _consuming = after, raising raised
ConsumingOutcome(q, line, raised, out, after) ==
    LET cont == _cont_replacement(q.replacement)
        end == _next_valid_quote(q.quote, line, 0)
        rest == From(line, end + 1)
    IN  /\ raised = "none"
        /\ IF end # -1
           THEN /\ Slice(out.line, 0, Len(cont)) = cont
                /\ Find(rest, q.quote, 0) = -1 =>
                       /\ out.line = cont \o rest
                       /\ ~ HasMsg(out) /\ ~ out.abort
                       /\ ~ after
           ELSE IF EndsInEscape(line)
           THEN /\ out.line = cont \o TerminatorOf(line)
                /\ ~ HasMsg(out) /\ ~ out.abort
                /\ after
           ELSE /\ out.msg = Msg("invalid continuation of string", <<>>)
                /\ out.abort

\* C20: a quote stripper that is consuming at the start of a line replaces
\* the prefix through a valid closing quote by the continuation token and
\* stops consuming; without a closing quote it returns the continuation
\* token plus the terminator and stays consuming when the line ends in an
\* escape, and returns the fatal 'invalid continuation of string' when the
\* line does not, a blank or one-character line included.
C20_ConsumingStripper ==
    [][ (pc \in {"M003", "M004"} /\ ConsumingOf(pc, RULES) /\ i' = i + 1) =>
            ConsumingOutcome(StripperOf(pc), lines.v[i + 1], exc', ro',
                             ConsumingOf(pc, RULES')) ]_vars


\* the 0-based positions of the valid delimiters of the stripper q in line:
\* the occurrences of its quote that are neither escaped nor the double
\* quote of a character literal
ValidQuotes(q, line) ==
    { p \in 0..(Len(line) - 1) :
        /\ OccursAt(line, q.quote, p)
        /\ ~ _is_escaped(line, p)
        /\ ~ _is_double_quote_in_char(line, p) }

\* line[n:] for the last n characters of line
LastChars(line, n) == SubSeq(line, Len(line) - n + 1, Len(line))

\* what C21 says of the call stripper(line) on a line whose last valid
\* delimiter opens a string that the line does not close
UnclosedOutcome(q, line, raised, out, after) ==
    LET cont == _cont_replacement(q.replacement) \o TerminatorOf(line)
        opener == LastOf(ValidQuotes(q, line))
    IN  /\ raised = "none"
        /\ IF EndsInEscape(line)
           THEN /\ Len(out.line) >= Len(cont)
                /\ LastChars(out.line, Len(cont)) = cont
                /\ ~ HasMsg(out) /\ ~ out.abort
                /\ after
           ELSE /\ out.msg = Msg("unmatched quote", <<opener + 1>>)
                /\ out.abort

\* C21: in the normal scan of a quote stripper an opening quote without a
\* valid closing quote on the line is replaced, up to the end of the line,
\* by the continuation token (terminator kept), without a warning and with
\* consuming set, when the line ends in an escape; otherwise the output is
\* fatal and its message gives the 1-based column of that quote in the line
\* passed to the stripper, also after earlier strings were replaced.
C21_UnclosedQuote ==
    [][ (/\ pc \in {"M003", "M004"} /\ ~ ConsumingOf(pc, RULES) /\ i' = i + 1
         /\ Cardinality(ValidQuotes(StripperOf(pc), lines.v[i + 1])) % 2 = 1) =>
            UnclosedOutcome(StripperOf(pc), lines.v[i + 1], exc', ro',
                            ConsumingOf(pc, RULES')) ]_vars


\* C22: a quote stripper that is not consuming, called on a line whose
\* strings are all closed on that line, replaces every string and returns,
\* without a message, a line in which no valid delimiter remains, also
\* when one string begins directly after the closing quote of another.
C22_NoDelimiterRemains ==
    [][ (/\ pc \in {"M003", "M004"} /\ ~ ConsumingOf(pc, RULES) /\ i' = i + 1
         /\ Cardinality(ValidQuotes(StripperOf(pc), lines.v[i + 1])) % 2 = 0) =>
            /\ exc' = "none"
            /\ ~ HasMsg(ro') /\ ~ ro'.abort
            /\ ValidQuotes(StripperOf(pc), ro'.line) = {}
            /\ ~ ConsumingOf(pc, RULES') ]_vars


\* what C23 says of the call stripper(line) of a consuming stripper on a
\* line that closes the continued string: the continuation token, then
\* what the normal scan makes of the remainder of the line
ResumedOutcome(q, line, raised, out, after) ==
    LET end == _next_valid_quote(q.quote, line, 0)
        norm == ReplaceQuotes(q, From(line, end + 1), FALSE)
    IN  norm.exc = "none" =>
            /\ raised = "none"
            /\ out.line = _cont_replacement(q.replacement) \o norm.ro.line
            /\ out.msg.kind = norm.ro.msg.kind
            /\ out.abort = norm.ro.abort
            /\ after = norm.consuming

\* C23: when a continued string is closed on a line, the quote stripper
\* resumes the normal scan at the first character of the remainder of the
\* line, wherever the closing quote stood: no string that opens in the
\* remainder is skipped.
C23_ScanResumesAtRemainder ==
    [][ (/\ pc \in {"M003", "M004"} /\ ConsumingOf(pc, RULES) /\ i' = i + 1
         /\ _next_valid_quote(StripperOf(pc).quote, lines.v[i + 1], 0) # -1) =>
            ResumedOutcome(StripperOf(pc), lines.v[i + 1], exc', ro',
                           ConsumingOf(pc, RULES')) ]_vars


\* the 0-based positions at which a triple quote begins in line
Triples(line) == { p \in 0..(Len(line) - 3) : OccursAt(line, TripleQuote, p) }

\* the first triple quote of line that begins at position from or later, -1
\* when there is none
TripleFrom(line, from) ==
    IF { p \in Triples(line) : p >= from } = {} THEN -1
    ELSE FirstOf({ p \in Triples(line) : p >= from })

\* what C24 says of the call stripper(line) of the multi-line-string
\* stripper whose _consuming was consuming before and is after afterwards
MultilineOutcome(line, consuming, raised, out, after) ==
    LET opener == TripleFrom(line, 0)
        closer == TripleFrom(line, opener + 3)
    IN  /\ raised = "none"
        /\ ~ HasMsg(out) /\ ~ out.abort
        /\ IF consuming
           THEN IF opener # -1
                THEN /\ out.line = REMOVED_MULTILINE_STRING \o From(line, opener + 3)
                     /\ ~ after
                ELSE /\ out.line = REMOVED_MULTILINE_STRING \o TerminatorOf(line)
                     /\ after
           ELSE IF opener = -1
                THEN out.line = line /\ ~ after
                ELSE IF closer # -1
                THEN /\ out.line = Slice(line, 0, opener) \o REMOVED_MULTILINE_STRING
                                       \o From(line, closer + 3)
                     /\ ~ after
                ELSE /\ out.line = Slice(line, 0, opener) \o REMOVED_MULTILINE_STRING
                                       \o TerminatorOf(line)
                     /\ after

\* C24: the consuming flag of the multi-line-string stripper follows the
\* triple quotes.  Not consuming: a line without a triple quote is returned
\* unchanged; an opener with a later closer has the span replaced by the
\* token, the rest kept, and leaves it not consuming; an opener without a
\* closer has the line from the opener replaced by the token, terminator
\* kept, and makes it consuming.  Consuming: a closer has everything through
\* it replaced by one token, the remainder kept, and ends the consuming; no
\* closer gives the token plus the terminator and it stays consuming.
C24_ConsumingFollowsTripleQuotes ==
    [][ (pc = "M002" /\ i' = i + 1) =>
            MultilineOutcome(lines.v[i + 1], RULES.ml_consuming, exc', ro',
                             RULES'.ml_consuming) ]_vars

\* a string opened on the first line, continued over the second and closed
\* on the third before a remainder
C24_ClosedOnThirdLine ==
    /\ pc = "M002" /\ i = 3
    /\ lines.v[1] = L_mlopen /\ lines.v[2] = L_clean
    /\ lines.v[3] = <<"a">> \o TripleQuote \o <<"a", "\n">>
    /\ ro.line = REMOVED_MULTILINE_STRING \o <<"a", "\n">>
    /\ ~ RULES.ml_consuming


\* line begins with the characters of prefix
StartsWith(line, prefix) == OccursAt(line, prefix, 0)

\* line without the prefix it begins with and the whitespace that follows
\* the prefix
WithoutPrefix(line, prefix) == From(line, SkipSpaces(line, Len(prefix)))

\* the first k lines of text end inside an echoed block: an unbroken run of
\* lines that begin with gap> or >, the first of which begins with gap>
InEchoedBlock(text, k) ==
    \E j \in 1..k :
        /\ StartsWith(text[j], <<"g","a","p",">">>)
        /\ \A m \in (j + 1)..k : \/ StartsWith(text[m], <<"g","a","p",">">>)
                                 \/ StartsWith(text[m], <<">">>)

\* what C25 says the prefix stripper returns for line k of a transcript
TranscriptLine(text, k) ==
    IF StartsWith(text[k], <<"g","a","p",">">>)
    THEN WithoutPrefix(text[k], <<"g","a","p",">">>)
    ELSE IF StartsWith(text[k], <<">">>) /\ InEchoedBlock(text, k - 1)
    THEN WithoutPrefix(text[k], <<">">>)
    ELSE REMOVED_LINE_FROM_TST_OR_XML_FILE \o TerminatorOf(text[k])

LeadingWhitespace(line) ==
    Cardinality({ k \in 1..Len(line) : \A j \in 1..k : IsSpace(line[j]) })

\* what C26 says of the call of the Indentation rule on line when its
\* _expected was expected before and is after afterwards
IndentationOutcome(line, ind, expected, raised, out, after) ==
    LET adjusted == expected + Adjust(line, _before(ind))
    IN  /\ raised = "none"
        /\ ~ out.abort
        /\ IF IsBlank(line)
           THEN ~ HasMsg(out) /\ after = expected
           ELSE /\ HasMsg(out) <=> LeadingWhitespace(line) < adjusted
                /\ HasMsg(out) =>
                       out.msg = Msg("bad indentation",
                                     <<LeadingWhitespace(line), adjusted>>)
                /\ after = adjusted + Adjust(line, _after(ind))

ClosingKeywords == {K_elif, K_else, K_end, K_od, K_fi, K_until}
ClosingOccurrences(line) ==
    { <<kw, p>> \in ClosingKeywords \X (0..Len(line)) :
        /\ OccursAt(line, kw, p)
        /\ p = 0 \/ ~ IsWord(line[p])
        /\ p + Len(kw) = Len(line) \/ ~ IsWord(line[p + Len(kw) + 1]) }

\* C27: every occurrence of a block-closing keyword (elif, else, end, od,
\* fi, until) on a line lowers the expected indentation by one indentation
\* unit before the check of that line: a line with k of them lowers it by k
\* units, whichever keywords they are.
C27_OneUnitPerClosingKeyword ==
    [][ (/\ pc = "W004" /\ i' = i + 1 /\ RULES.expected >= 0
         /\ ~ IsBlank(lines.v[i + 1])) =>
            RULES'.expected =
                RULES.expected
                    - RULES.ind * Cardinality(ClosingOccurrences(lines.v[i + 1]))
                    + Adjust(lines.v[i + 1], _after(RULES.ind)) ]_vars


\* C28: the expected minimum indentation is not negative when the
\* Indentation rule begins a line, whatever lines came before, unbalanced
\* ones included: the assertion at the start of its call never fails.
C28_ExpectationNeverNegative ==
    pc = "W004" =>
        /\ exc # "AssertionError"
        /\ i < Len(lines.v) => RULES.expected >= 0


\* line refers to the name v: v is a word of the line, of the part after the
\* first ';' when the line begins a declaration of locals
Refers(line, v) ==
    IF _is_local_declared(line)
    THEN /\ Find(line, <<";">>, 0) # -1
         /\ v \in Names(From(line, Find(line, <<";">>, 0) + 1))
    ELSE v \in Names(line)

\* v is a local of the function opened at line f and closed at line c of
\* text, and a line after its declaration, line c included, refers to it
ReferencedInFrame(text, f, c, v) ==
    \E d \in LocalLines(text, f, c) :
        /\ v \in Names(text[d]) \ {K_local}
        /\ \E k \in (d + 1)..c : Refers(text[k], v)

\* C29: a declared local that a line inside its frame refers to, any line
\* after the declaration up to and including the line with the closing
\* keyword of the frame, whatever other keywords the line carries, is not
\* reported when the frame closes.
C29_ReferencedLocalNotReported ==
    (/\ pc = "W028" /\ i >= 1 /\ exc = "none"
     /\ _is_end_declared(lines.v[i])
     /\ ro.msg.kind = "unused local variables") =>
        \A v \in ro.msg.data :
            ~ ReferencedInFrame(lines.v, FrameStart(lines.v, i), i, v)


\* a declaration of locals is open after line k of text: it began on that
\* line or was open before it, and the line holds no ';'
RECURSIVE DeclarationOpen(_, _)
DeclarationOpen(text, k) ==
    IF k = 0 THEN FALSE
    ELSE /\ _is_local_declared(text[k]) \/ DeclarationOpen(text, k - 1)
         /\ Find(text[k], <<";">>, 0) = -1

\* the line on which the declaration that line k of text belongs to began
DeclarationStart(text, k) ==
    LastOf({ d \in 1..k : /\ _is_local_declared(text[d])
                          /\ ~ DeclarationOpen(text, d - 1) })

\* the names of the declaration that ends with the ';' of line k of text
DeclaredNames(text, k) ==
    (UNION { Names(text[j]) : j \in DeclarationStart(text, k)..(k - 1) }
        \cup Names(Slice(text[k], 0, Find(text[k], <<";">>, 0)))) \ {K_local}

\* C30: for a declaration of locals that spans lines the consuming-locals
\* state is on from the first line without ';' until the line that holds
\* the ';', and on that line every name of every line of the declaration up
\* to the ';' is among the declared locals of the current frame.
C30_DeclarationOverLines ==
    (/\ pc = "W028" /\ i >= 1 /\ exc = "none" /\ ~ HasMsg(ro)
     /\ lines.v \in DeclarationTexts) =>
        /\ RULES.consuming_lvars <=> DeclarationOpen(lines.v, i)
        /\ (/\ _is_local_declared(lines.v[i]) \/ DeclarationOpen(lines.v, i - 1)
            /\ ~ DeclarationOpen(lines.v, i)
            /\ ~ _is_end_declared(lines.v[i])) =>
               /\ RULES.lvars # <<>>
               /\ DeclaredNames(lines.v, i) \subseteq RULES.lvars[Len(RULES.lvars)]


\* the last rule application of the run is the Indentation rule on a first
\* line of a file that opens a function
IndentationAfterFunction ==
    /\ hist.applied # <<>>
    /\ hist.applied[Len(hist.applied)].code = "W004"
    /\ hist.applied[Len(hist.applied)].line = 0
    /\ files[args.files[hist.applied[Len(hist.applied)].file]].text # <<>>
    /\ files[args.files[hist.applied[Len(hist.applied)].file]].text[1] = L_func

\* C31: the indentation unit by which the Indentation rule adjusts its
\* expectation is the indentation value of the configuration resolved for
\* the run: with an indentation override, the expectation after a line that
\* opens a function is the overriding value.
C31_UnitIsResolvedIndentation ==
    (__USER_PREFERENCES_LOADED /\ exc = "none") =>
        /\ RULES.ind = _get_config_val("indentation")
        /\ IndentationAfterFunction => RULES.expected = _get_config_val("indentation")


\* the 0-based positions of the single quotes of line that do not follow an
\* odd number of backslashes
UnescapedSingleQuotes(line) ==
    { p \in PositionsOf(line, "'") : BackslashesBefore(line, p) % 2 = 0 }

\* C32: the second quote stripper takes the single quote as its delimiter:
\* when it returns without a fatal output, every character literal between
\* single quotes has been replaced by the token and no unescaped single
\* quote remains in the line it returns.
C32_NoSingleQuoteRemains ==
    (pc = "M004" /\ i >= 1 /\ exc = "none" /\ ~ ro.abort) =>
        UnescapedSingleQuotes(ro.line) = {}


\* C33: every call of _is_escaped that a quote stripper makes passes a
\* position its assertion accepts, for every line, one-character and blank
\* lines included, and in both states of the stripper: no call of a quote
\* stripper raises AssertionError.
C33_EscapeAssertionHolds ==
    pc \in {"M003", "M004"} => exc # "AssertionError"


\* C34: the scope analyzer keeps its stack well formed for every sequence of
\* lines: after every line depth >= -1 and depth + 1 is the number of
\* argument sets and of local sets, no call pops or indexes a stack with no
\* open frame (no IndexError) and no assertion of the analyzer fails.
C34_StackWellFormed ==
    pc = "W028" =>
        /\ exc \notin {"IndexError", "AssertionError"}
        /\ RULES.depth >= -1
        /\ RULES.depth + 1 = Len(RULES.args)
        /\ RULES.depth + 1 = Len(RULES.lvars)


\* the file has no statement line: it is empty or every line of it is blank
\* or a comment
OnlyBlankAndCommentLines(text) ==
    \A k \in 1..Len(text) : IsBlankOrComment(text[k])

\* C35: the global-suppression scan ends normally for every file and reads
\* no line index outside the file (no IndexError); for an empty file and
\* for a file of blank and comment lines only it returns the table of the
\* directives found.
C35_ScanStaysInsideFile ==
    pc = "global_suppdic" =>
        /\ ret.exc = "none"
        /\ OnlyBlankAndCommentLines(files[1].text) =>
               ret.dic = ExpectedGlobalCodes(files[1].text)


\* the globals of a process that has imported the module and called nothing
ImportedGlobals ==
    [loaded |-> FALSE, config |-> EmptyDict,
     supps |-> EmptyDict, g_supps |-> EmptyDict]

\* the namespace the call's own keyword arguments give in such a process
OwnArgs == _parse_args(kwargs, files, EmptyDict)

\* the answer for the rule code on line linenum of the file fname, resolved
\* from the arguments and the files of the call alone
OwnAnswer(fname, linenum, code) ==
    __is_rule_disabled_or_suppressed(
        [args |-> OwnArgs, yml |-> yml, files |-> files],
        ImportedGlobals, fname, linenum, code)

\* C36: in a call of run_gaplint that follows another in the same process,
\* whether a rule is skipped and the configuration values in use are those
\* resolved from the call's own overrides and the directives of its own
\* files, whatever the earlier call was given.
C36_LaterCallUsesOwnArguments ==
    (hist.calls >= 2 /\ pc = "rule" /\ ri > 1
       /\ OwnAnswer(files[args.files[fi]].name, i, __get_all_rules_list[ri - 1]).exc = "none") =>
        /\ is_rule_supp =
               OwnAnswer(files[args.files[fi]].name, i, __get_all_rules_list[ri - 1]).val
        /\ \A key \in ConfigKeys :
               _get_config_val(key) =
                   get_config_val_in(
                       OwnAnswer(files[args.files[fi]].name, i,
                                 __get_all_rules_list[ri - 1]).config, key)
        /\ args.max_warnings = OwnArgs.max_warnings


\* C37: when every rule of RULES is applied in order to the lines of a text,
\* a line of the text that holds a triple quote and is reached while the
\* multi-line-string stripper is consuming ends the consuming state, also
\* when a '#' stands before the triple quote on that line.
C37_CloserNotHiddenByComment ==
    [][ (pc = "RULES" /\ i < Len(lines.v) /\ i' = i + 1
           /\ RULES.ml_consuming
           /\ Find(lines.v[i + 1], TripleQuote, 0) # -1)
        => ~ RULES'.ml_consuming ]_vars

=============================================================================
